---- MODULE Spec2Model ----
(***************************************************************************)
(* The Hive: interest -> handshake -> honey settlement, and the chat       *)
(* consumer that drives it.  Modelled from core/models.py (Handshake,      *)
(* HoneyBalance, parse_duration_to_hours) and core/consumers.py            *)
(* (ChatConsumer).                                                         *)
(***************************************************************************)
EXTENDS Integers, Sequences, FiniteSets, TLC

VARIABLES
    interests,   \* OfferInterest / NeedInterest rows, in creation order
    handshakes,  \* Handshake rows, pk = index
    balances,    \* HoneyBalance rows: user -> [total_honey, provisioned_honey]
    messages,    \* Message rows, pk = index
    savers,      \* in-flight Handshake.save() calls (concurrent specification)
    starters,    \* in-flight create_handshake() calls (concurrent specification)
    conns,       \* websocket connections: connect() position, group membership, events sent
    listings,    \* Offer / Need rows: status, expires_at, title
    now,         \* timezone.now()
    last         \* the last operation and what it returned / sent

vars == <<interests, handshakes, balances, messages, savers, starters, conns, listings, now,
          last>>

(***************************************************************************)
(* Bounds                                                                  *)
(***************************************************************************)
MaxAmount == 2       \* largest amount passed to a ledger operation / honey_amount
MaxTotal == 4        \* cap on total_honey for add_honey in the ledger specification
MaxInterests == 2    \* interest rows
MaxHandshakes == 2   \* handshake rows
MaxMessages == 1     \* message rows
MaxSends == 2        \* message rows persisted over open chat connections
MaxErrors == 1       \* error events sent to chat connections
MaxTenths == 45      \* largest number of a duration in hours, in tenths ("4.5")
MaxMinutes == 150    \* largest number of a duration in minutes
MaxNow == 2          \* latest time the clock reaches

(***************************************************************************)
(* Static data: users and listings (listing CRUD is outside the model)     *)
(***************************************************************************)
Users == {"alice", "bob", "carol"}

Null == 0

\* A duration string, by the tokens parse_duration_to_hours looks at: the
\* first number (in tenths, "1.5" = 15) and the unit word that follows it.
\* unit "none" = a bare number; unit "nonum" = no numeric token; "empty" = ''.
Duration(tenths, unit) == [tenths |-> tenths, unit |-> unit]

\* Offer 1 by alice, "2 Hours"; Need 1 by bob, "4 Hours".
Listings ==
    { [type |-> "offer", id |-> 1, user |-> "alice", duration |-> Duration(20, "hour")],
      [type |-> "need",  id |-> 1, user |-> "bob",   duration |-> Duration(40, "hour")] }

\* Conversation ids "{type}_{id}"; offer_2 / need_2 name no listing.
ConvIds == [type : {"offer", "need"}, id : {1, 2}]

HasListing(conv) == \E l \in Listings : l.type = conv.type /\ l.id = conv.id
ListingOf(conv) == CHOOSE l \in Listings : l.type = conv.type /\ l.id = conv.id

(***************************************************************************)
(* parse_duration_to_hours                                                 *)
(***************************************************************************)
\* Python round(): nearest integer, ties to the even one.  num/den >= 0.
PyRound(num, den) ==
    LET q == num \div den
        r == num % den
    IN  IF 2 * r < den THEN q
        ELSE IF 2 * r > den THEN q + 1
        ELSE IF q % 2 = 0 THEN q ELSE q + 1

parse_duration_to_hours(d) ==
    IF d.unit \in {"empty", "nonum"} THEN 0
    ELSE IF d.unit = "hour" THEN PyRound(d.tenths, 10)
    ELSE IF d.unit = "minute" THEN PyRound(d.tenths, 600)
    ELSE PyRound(d.tenths, 10)

(***************************************************************************)
(* HoneyBalance                                                            *)
(***************************************************************************)
Balance(t, p) == [total_honey |-> t, provisioned_honey |-> p]

\* api_register: a new user's balance
StartingBalance == Balance(3, 0)

usable_honey(b) == b.total_honey - b.provisioned_honey

can_afford(b, amount) == usable_honey(b) >= amount

\* Each operation returns [ok, bal]: ok = FALSE is the ValidationError, and
\* bal is the row as save() writes it (unchanged when the call raised).
provision_total_check(b, amount) ==
    IF b.total_honey < amount
    THEN [ok |-> FALSE, bal |-> b]
    ELSE [ok |-> TRUE, bal |-> [b EXCEPT !.provisioned_honey = @ + amount]]

provision(b, amount) ==
    IF ~can_afford(b, amount)
    THEN [ok |-> FALSE, bal |-> b]
    ELSE [ok |-> TRUE, bal |-> [b EXCEPT !.provisioned_honey = @ + amount]]

release_provision_refund(b, amount) ==
    IF b.provisioned_honey < amount
    THEN [ok |-> FALSE, bal |-> b]
    ELSE [ok |-> TRUE, bal |-> [b EXCEPT !.provisioned_honey = @ - amount,
                                         !.total_honey = @ - amount]]

release_provision_all(b, amount) ==
    IF b.provisioned_honey < amount
    THEN [ok |-> FALSE, bal |-> b]
    ELSE [ok |-> TRUE, bal |-> [b EXCEPT !.provisioned_honey = 0]]

release_provision_clamped(b, amount) ==
    IF b.provisioned_honey < amount
    THEN [ok |-> TRUE, bal |-> [b EXCEPT !.provisioned_honey = 0]]
    ELSE [ok |-> TRUE, bal |-> [b EXCEPT !.provisioned_honey = @ - amount]]

release_provision(b, amount) ==
    IF b.provisioned_honey < amount
    THEN [ok |-> FALSE, bal |-> b]
    ELSE [ok |-> TRUE, bal |-> [b EXCEPT !.provisioned_honey = @ - amount]]

add_honey(b, amount) ==
    [ok |-> TRUE, bal |-> [b EXCEPT !.total_honey = @ + amount]]

deduct_honey(b, amount) ==
    IF b.total_honey < amount
    THEN [ok |-> FALSE, bal |-> b]
    ELSE [ok |-> TRUE, bal |-> [b EXCEPT !.total_honey = @ - amount]]

finalize_transaction_total_only(b, provisioned_amount) ==
    IF b.provisioned_honey < provisioned_amount
    THEN [ok |-> FALSE, bal |-> b]
    ELSE [ok |-> TRUE, bal |-> [b EXCEPT !.total_honey = @ - provisioned_amount]]

finalize_transaction(b, provisioned_amount) ==
    IF b.provisioned_honey < provisioned_amount
    THEN [ok |-> FALSE, bal |-> b]
    ELSE [ok |-> TRUE,
          bal |-> [b EXCEPT !.total_honey = @ - provisioned_amount,
                            !.provisioned_honey = @ - provisioned_amount]]

(***************************************************************************)
(* Interests and handshakes                                                *)
(***************************************************************************)
Statuses == {"active", "in_progress", "completed", "cancelled"}

InterestIds == 1..Len(interests)
HandshakeIds == 1..Len(handshakes)

InterestOfNone(conv, user) == Null

\* OfferInterest.objects.get(offer=.., user=..) / NeedInterest...: the row's
\* id, or Null for DoesNotExist (unique_together makes it at most one).
InterestOf(conv, user) ==
    LET hits == {i \in InterestIds : interests[i].type = conv.type
                                     /\ interests[i].listing = conv.id
                                     /\ interests[i].user = user}
    IN  IF hits = {} THEN Null ELSE CHOOSE i \in hits : TRUE

\* ...filter(offer=offer).exclude(user=self.user).first() under
\* Meta.ordering = ['-created_at']: the most recently created such row.
FirstOtherInterest(conv, user) ==
    LET hits == {i \in InterestIds : interests[i].type = conv.type
                                     /\ interests[i].listing = conv.id
                                     /\ interests[i].user # user}
    IN  IF hits = {} THEN Null ELSE CHOOSE i \in hits : \A j \in hits : j <= i

HandshakeOfInterestNone(i) == Null

\* interest.handshake (the reverse of the OneToOneField), Null when absent
HandshakeOfInterest(i) ==
    LET hits == {h \in HandshakeIds :
                    \/ (interests[i].type = "offer" /\ handshakes[h].offer_interest = i)
                    \/ (interests[i].type = "need" /\ handshakes[h].need_interest = i)}
    IN  IF hits = {} THEN Null ELSE CHOOSE h \in hits : TRUE

NoUser == "nobody"

get_spender_user2(h) ==
    IF h.offer_interest # Null \/ h.need_interest # Null THEN h.user2 ELSE NoUser

get_spender(h) ==
    IF h.offer_interest # Null THEN h.user2
    ELSE IF h.need_interest # Null THEN h.user1
    ELSE NoUser

get_earner(h) ==
    IF h.offer_interest # Null THEN h.user1
    ELSE IF h.need_interest # Null THEN h.user2
    ELSE NoUser

clean_either(h) ==
    ~(h.offer_interest = Null /\ h.need_interest = Null)

\* Handshake.clean(): exactly one of the two interests is set
clean(h) ==
    /\ ~(h.offer_interest = Null /\ h.need_interest = Null)
    /\ ~(h.offer_interest # Null /\ h.need_interest # Null)

\* HoneyBalance.objects.get_or_create(user=u, defaults={0, 0})
GetOrCreateZero(bals, u) ==
    IF u \in DOMAIN bals THEN bals ELSE bals @@ (u :> Balance(0, 0))

FinalizeHoneyTransactionAlwaysCredits(self, bals) ==
    IF self.honey_amount <= 0 THEN bals
    ELSE LET spender == get_spender(self)
             earner == get_earner(self)
         IN  IF spender = NoUser \/ earner = NoUser THEN bals
             ELSE LET loaded == GetOrCreateZero(GetOrCreateZero(bals, spender), earner)
                      fin == finalize_transaction(loaded[spender], self.honey_amount)
                  IN  [[loaded EXCEPT ![spender] = IF fin.ok THEN fin.bal ELSE @]
                          EXCEPT ![earner] = add_honey(loaded[earner], self.honey_amount).bal]

\* Handshake._finalize_honey_transaction: the balance table afterwards
FinalizeHoneyTransaction(self, bals) ==
    IF self.honey_amount <= 0 THEN bals
    ELSE LET spender == get_spender(self)
             earner == get_earner(self)
         IN  IF spender = NoUser \/ earner = NoUser THEN bals
             ELSE LET loaded == GetOrCreateZero(GetOrCreateZero(bals, spender), earner)
                      spender_balance == loaded[spender]
                      earner_balance == loaded[earner]
                      fin == finalize_transaction(spender_balance, self.honey_amount)
                  IN  IF ~fin.ok THEN loaded
                      ELSE [[loaded EXCEPT ![spender] = fin.bal]
                               EXCEPT ![earner] =
                                   add_honey(earner_balance, self.honey_amount).bal]

\* Handshake._release_provisioned_honey: the balance table afterwards
ReleaseProvisionedHoney(self, bals) ==
    IF self.honey_amount <= 0 THEN bals
    ELSE LET spender == get_spender(self)
         IN  IF spender = NoUser \/ spender \notin DOMAIN bals THEN bals
             ELSE LET rel == release_provision(bals[spender], self.honey_amount)
                  IN  IF ~rel.ok THEN bals
                      ELSE [bals EXCEPT ![spender] = rel.bal]

\* Which ledger effect Handshake.save() runs for old_status -> new_status
SaveEffectUnguarded(old_status, new_status) ==
    IF new_status = "completed" THEN "finalize"
    ELSE IF new_status = "cancelled" THEN "release"
    ELSE "none"

SaveEffect(old_status, new_status) ==
    IF old_status # "completed" /\ new_status = "completed" THEN "finalize"
    ELSE IF old_status # "cancelled" /\ new_status = "cancelled" THEN "release"
    ELSE "none"

ApplySaveEffect(effect, self, bals) ==
    IF effect = "finalize" THEN FinalizeHoneyTransaction(self, bals)
    ELSE IF effect = "release" THEN ReleaseProvisionedHoney(self, bals)
    ELSE bals

\* The ValidationError branches of _finalize_honey_transaction and
\* _release_provisioned_honey: the ledger call of the effect raises (and the
\* except clause logs it)
LedgerEffectFails(effect, self, bals) ==
    /\ self.honey_amount > 0
    /\ get_spender(self) # NoUser
    /\ IF effect = "finalize"
       THEN /\ get_earner(self) # NoUser
            /\ ~finalize_transaction(GetOrCreateZero(bals, get_spender(self))[get_spender(self)],
                                     self.honey_amount).ok
       ELSE /\ effect = "release"
            /\ get_spender(self) \in DOMAIN bals
            /\ ~release_provision(bals[get_spender(self)], self.honey_amount).ok

SaveExistingAtomic(hid, new_status) ==
    LET self == [handshakes[hid] EXCEPT !.status = new_status]
        old_status == handshakes[hid].status
        effect == SaveEffect(old_status, new_status)
    IN  IF LedgerEffectFails(effect, self, balances)
        THEN UNCHANGED <<balances, handshakes>>
        ELSE /\ balances' = ApplySaveEffect(effect, self, balances)
             /\ handshakes' = IF clean(self) THEN [handshakes EXCEPT ![hid] = self]
                              ELSE handshakes

SaveExistingSpent(hid, new_status) ==
    LET self == [handshakes[hid] EXCEPT !.status = new_status]
        old_status == handshakes[hid].status
        effect == SaveEffect(old_status, new_status)
        written == IF effect = "none" THEN self ELSE [self EXCEPT !.honey_amount = 0]
    IN  /\ balances' = ApplySaveEffect(effect, self, balances)
        /\ handshakes' = IF clean(self) THEN [handshakes EXCEPT ![hid] = written]
                         ELSE handshakes

\* Handshake.save() of an existing row whose status was set to new_status:
\* the ledger effect, then full_clean() and the row write.
SaveExisting(hid, new_status) ==
    LET self == [handshakes[hid] EXCEPT !.status = new_status]
        old_status == handshakes[hid].status
    IN  /\ balances' = ApplySaveEffect(SaveEffect(old_status, new_status), self, balances)
        /\ handshakes' = IF clean(self) THEN [handshakes EXCEPT ![hid] = self]
                         ELSE handshakes

\* Handshake.save() of a new row (pk is None: no ledger effect): full_clean()
\* with clean() and the one-to-one uniqueness of each interest, then insert.
InsertAllowed(row) ==
    /\ clean(row)
    /\ \A h \in HandshakeIds :
          /\ (row.offer_interest # Null => handshakes[h].offer_interest # row.offer_interest)
          /\ (row.need_interest # Null => handshakes[h].need_interest # row.need_interest)

NewHandshake(oi, ni, u1, u2, st, amount) ==
    [offer_interest |-> oi, need_interest |-> ni, user1 |-> u1, user2 |-> u2,
     status |-> st, honey_amount |-> amount]

(***************************************************************************)
(* Model-layer operations (as a caller of core.models uses them)           *)
(***************************************************************************)
LedgerCall(op, u, amount, res) ==
    /\ u \in DOMAIN balances
    /\ balances' = [balances EXCEPT ![u] = res.bal]
    /\ last' = [op |-> op, user |-> u, amount |-> amount, ok |-> res.ok,
                before |-> balances[u],
                undo |-> (/\ op = "release_provision"
                          /\ last.op = "provision"
                          /\ last.ok
                          /\ last.user = u
                          /\ last.amount = amount)]
    /\ UNCHANGED <<interests, handshakes, messages, savers, starters, conns, listings, now>>

Provision(u, amount) ==
    /\ u \in DOMAIN balances
    /\ LedgerCall("provision", u, amount, provision(balances[u], amount))

ReleaseProvision(u, amount) ==
    /\ u \in DOMAIN balances
    /\ LedgerCall("release_provision", u, amount, release_provision(balances[u], amount))

AddHoney(u, amount) ==
    /\ u \in DOMAIN balances
    /\ balances[u].total_honey + amount <= MaxTotal
    /\ LedgerCall("add_honey", u, amount, add_honey(balances[u], amount))

DeductHoney(u, amount) ==
    /\ u \in DOMAIN balances
    /\ LedgerCall("deduct_honey", u, amount, deduct_honey(balances[u], amount))

FinalizeTransaction(u, amount) ==
    /\ u \in DOMAIN balances
    /\ LedgerCall("finalize_transaction", u, amount,
                  finalize_transaction(balances[u], amount))

\* Handshake.objects.create(...)
HandshakeCreate(oi, ni, u1, u2, st, amount) ==
    LET row == NewHandshake(oi, ni, u1, u2, st, amount)
    IN  /\ Len(handshakes) < MaxHandshakes
        /\ handshakes' = IF InsertAllowed(row) THEN Append(handshakes, row)
                         ELSE handshakes
        /\ last' = [op |-> "create", ok |-> InsertAllowed(row),
                    offer_interest |-> oi, need_interest |-> ni,
                    hid |-> IF InsertAllowed(row) THEN Len(handshakes) + 1 ELSE Null]
        /\ UNCHANGED <<interests, balances, messages, savers, starters, conns, listings, now>>

\* handshake.status = new_status; handshake.save()
HandshakeSave(hid, new_status) ==
    /\ hid \in HandshakeIds
    /\ SaveExisting(hid, new_status)
    /\ last' = [op |-> "save", hid |-> hid, old_status |-> handshakes[hid].status,
                new_status |-> new_status,
                ok |-> clean([handshakes[hid] EXCEPT !.status = new_status]),
                ledger_error |->
                    LedgerEffectFails(SaveEffect(handshakes[hid].status, new_status),
                                      [handshakes[hid] EXCEPT !.status = new_status],
                                      balances),
                changed |-> balances' # balances,
                repeat |-> (last.op = "save" /\ last.hid = hid
                            /\ last.new_status = new_status)]
    /\ UNCHANGED <<interests, messages, savers, starters, conns, listings, now>>

(***************************************************************************)
(* ChatConsumer: one inbound event of a joined connection of `user` on     *)
(* conversation `conv` (connect admits every authenticated user to every   *)
(* conversation whose listing exists)                                      *)
(***************************************************************************)
\* str.strip() of the chat content; contents are "hi", " hi " and blanks
Contents == {"hi", " hi ", "  "}

StripKeep(content) == content

Strip(content) ==
    IF content = "  " THEN "" ELSE "hi"

NewInterestAccepted(conv, user) ==
    [type |-> conv.type, listing |-> conv.id, user |-> user, status |-> "accepted"]

NewInterest(conv, user) ==
    [type |-> conv.type, listing |-> conv.id, user |-> user, status |-> "pending"]

CreateHandshakeResultAnyParty(user, conv) ==
    IF ~HasListing(conv) THEN [kind |-> "none"]
    ELSE LET interest == IF ListingOf(conv).user = user
                         THEN FirstOtherInterest(conv, user)
                         ELSE InterestOf(conv, user)
         IN  IF interest = Null THEN [kind |-> "none"]
             ELSE IF HandshakeOfInterest(interest) # Null
             THEN [kind |-> "exists", hid |-> HandshakeOfInterest(interest),
                   status |-> handshakes[HandshakeOfInterest(interest)].status]
             ELSE LET row == NewHandshake(
                                IF conv.type = "offer" THEN interest ELSE Null,
                                IF conv.type = "need" THEN interest ELSE Null,
                                ListingOf(conv).user, interests[interest].user, "active", 0)
                  IN  IF InsertAllowed(row)
                      THEN [kind |-> "created", hid |-> Len(handshakes) + 1,
                            status |-> "active", row |-> row]
                      ELSE [kind |-> "none"]

CreateHandshakeResultOnDemand(user, conv) ==
    IF ~HasListing(conv) THEN [kind |-> "none"]
    ELSE IF ListingOf(conv).user = user THEN [kind |-> "none"]
    ELSE LET interest == IF InterestOf(conv, user) # Null THEN InterestOf(conv, user)
                         ELSE Len(interests) + 1
         IN  IF interest \in InterestIds /\ HandshakeOfInterest(interest) # Null
             THEN [kind |-> "exists", hid |-> HandshakeOfInterest(interest),
                   status |-> handshakes[HandshakeOfInterest(interest)].status]
             ELSE LET row == NewHandshake(
                                IF conv.type = "offer" THEN interest ELSE Null,
                                IF conv.type = "need" THEN interest ELSE Null,
                                ListingOf(conv).user, user, "active", 0)
                  IN  IF InsertAllowed(row)
                      THEN [kind |-> "created", hid |-> Len(handshakes) + 1,
                            status |-> "active", row |-> row]
                      ELSE [kind |-> "none"]

\* ChatConsumer.create_handshake: what it returns, and the row it inserts
CreateHandshakeResult(user, conv) ==
    IF ~HasListing(conv) THEN [kind |-> "none"]
    ELSE IF ListingOf(conv).user = user THEN [kind |-> "none"]
    ELSE LET interest == InterestOf(conv, user)
         IN  IF interest = Null THEN [kind |-> "none"]
             ELSE IF HandshakeOfInterest(interest) # Null
             THEN [kind |-> "exists", hid |-> HandshakeOfInterest(interest),
                   status |-> handshakes[HandshakeOfInterest(interest)].status]
             ELSE LET row == NewHandshake(
                                IF conv.type = "offer" THEN interest ELSE Null,
                                IF conv.type = "need" THEN interest ELSE Null,
                                ListingOf(conv).user, user, "active", 0)
                  IN  IF InsertAllowed(row)
                      THEN [kind |-> "created", hid |-> Len(handshakes) + 1,
                            status |-> "active", row |-> row]
                      ELSE [kind |-> "none"]

\* receive() of {type: "handshake_start"}
ReceiveHandshakeStart(user, conv) ==
    LET res == CreateHandshakeResult(user, conv)
    IN  /\ HasListing(conv)
        /\ res.kind = "created" => Len(handshakes) < MaxHandshakes
        /\ handshakes' = IF res.kind = "created" THEN Append(handshakes, res.row)
                         ELSE handshakes
        /\ last' = [op |-> "handshake_start", user |-> user, conv |-> conv,
                    result |-> res.kind,
                    hid |-> IF res.kind = "none" THEN Null ELSE res.hid,
                    broadcast |-> res.kind # "none"]
        /\ UNCHANGED <<interests, balances, messages, savers, starters, conns, listings, now>>

\* ChatConsumer.approve_handshake: the handshake it approves, or Null
ApproveTarget(user, conv) ==
    IF ~HasListing(conv) THEN Null
    ELSE IF ListingOf(conv).user # user THEN Null
    ELSE LET interest == FirstOtherInterest(conv, user)
         IN  IF interest = Null THEN Null ELSE HandshakeOfInterest(interest)

\* The status approve_handshake assigns before handshake.save()
ApprovedStatus(current) == "in_progress"

\* receive() of {type: "handshake_approve"}
ReceiveHandshakeApprove(user, conv) ==
    LET hid == ApproveTarget(user, conv)
    IN  /\ HasListing(conv)
        /\ IF hid = Null
           THEN UNCHANGED <<handshakes, balances>>
           ELSE SaveExisting(hid, ApprovedStatus(handshakes[hid].status))
        /\ last' = [op |-> "handshake_approve", user |-> user, conv |-> conv,
                    result |-> IF hid = Null THEN "none" ELSE "approved",
                    hid |-> hid,
                    old_status |-> IF hid = Null THEN "none" ELSE handshakes[hid].status,
                    broadcast |-> hid # Null]
        /\ UNCHANGED <<interests, messages, savers, starters, conns, listings, now>>

\* ChatConsumer.save_message: the interest and recipient it resolves
\* (interest = Null: returns None; created: get_or_create inserted the row)
MessageTarget(user, conv) ==
    IF ~HasListing(conv) THEN [interest |-> Null, created |-> FALSE]
    ELSE IF ListingOf(conv).user = user
    THEN LET interest == FirstOtherInterest(conv, user)
         IN  IF interest = Null THEN [interest |-> Null, created |-> FALSE]
             ELSE [interest |-> interest, created |-> FALSE,
                   recipient |-> interests[interest].user]
    ELSE IF InterestOf(conv, user) # Null
    THEN [interest |-> InterestOf(conv, user), created |-> FALSE,
          recipient |-> ListingOf(conv).user]
    ELSE [interest |-> Len(interests) + 1, created |-> TRUE,
          recipient |-> ListingOf(conv).user]

\* receive() of {type: "message", content}
ReceiveMessage(user, conv, content) ==
    LET text == Strip(content)
        tgt == MessageTarget(user, conv)
    IN  /\ HasListing(conv)
        /\ IF text = ""
           THEN /\ last' = [op |-> "message", user |-> user, conv |-> conv,
                            result |-> "error", broadcast |-> FALSE]
                /\ UNCHANGED <<interests, messages>>
           ELSE IF tgt.interest = Null
           THEN /\ last' = [op |-> "message", user |-> user, conv |-> conv,
                            result |-> "none", broadcast |-> FALSE]
                /\ UNCHANGED <<interests, messages>>
           ELSE /\ tgt.created => Len(interests) < MaxInterests
                /\ Len(messages) < MaxMessages
                /\ interests' = IF tgt.created
                                THEN Append(interests, NewInterest(conv, user))
                                ELSE interests
                /\ messages' = Append(messages,
                                   [interest |-> tgt.interest, sender |-> user,
                                    recipient |-> tgt.recipient, content |-> text,
                                    is_read |-> FALSE])
                /\ last' = [op |-> "message", user |-> user, conv |-> conv,
                            result |-> "saved", mid |-> Len(messages) + 1,
                            broadcast |-> TRUE]
        /\ UNCHANGED <<handshakes, balances, savers, starters, conns, listings, now>>

(***************************************************************************)
(* REST: GET /conversations/{id}/messages, and direct interest inserts     *)
(***************************************************************************)
\* api_conversation_messages: the interest and the other user it resolves
\* (interest = Null: 404 'No conversation found'; created: get_or_create
\* inserted the row)
OpenTargetGetOrCreate(user, conv) ==
    IF InterestOf(conv, user) # Null
    THEN [interest |-> InterestOf(conv, user), created |-> FALSE,
          other_user |-> ListingOf(conv).user]
    ELSE [interest |-> Len(interests) + 1, created |-> TRUE,
          other_user |-> ListingOf(conv).user]

OpenTarget(user, conv) ==
    IF ListingOf(conv).user = user
    THEN LET interest == FirstOtherInterest(conv, user)
         IN  IF interest = Null THEN [interest |-> Null, created |-> FALSE]
             ELSE [interest |-> interest, created |-> FALSE,
                   other_user |-> interests[interest].user]
    ELSE IF InterestOf(conv, user) # Null
    THEN [interest |-> InterestOf(conv, user), created |-> FALSE,
          other_user |-> ListingOf(conv).user]
    ELSE [interest |-> Len(interests) + 1, created |-> TRUE,
          other_user |-> ListingOf(conv).user]

MarkReadToggle(msgs, interest, other_user, user) ==
    [m \in DOMAIN msgs |->
        IF /\ msgs[m].interest = interest
           /\ msgs[m].sender = other_user
           /\ msgs[m].recipient = user
        THEN [msgs[m] EXCEPT !.is_read = ~@]
        ELSE msgs[m]]

\* Message.objects.filter(interest, sender=other_user, recipient=user,
\* is_read=False).update(is_read=True)
MarkRead(msgs, interest, other_user, user) ==
    [m \in DOMAIN msgs |->
        IF /\ msgs[m].interest = interest
           /\ msgs[m].sender = other_user
           /\ msgs[m].recipient = user
           /\ ~msgs[m].is_read
        THEN [msgs[m] EXCEPT !.is_read = TRUE]
        ELSE msgs[m]]

\* api_conversation_messages for an authenticated user
OpenConversation(user, conv) ==
    /\ IF ~HasListing(conv)
       THEN /\ last' = [op |-> "open", user |-> user, conv |-> conv,
                        result |-> "not_found", interest |-> Null, created |-> FALSE]
            /\ UNCHANGED <<interests, messages>>
       ELSE LET tgt == OpenTarget(user, conv)
            IN  IF tgt.interest = Null
                THEN /\ last' = [op |-> "open", user |-> user, conv |-> conv,
                                 result |-> "no_conversation", interest |-> Null,
                                 created |-> FALSE]
                     /\ UNCHANGED <<interests, messages>>
                ELSE /\ tgt.created => Len(interests) < MaxInterests
                     /\ interests' = IF tgt.created
                                     THEN Append(interests, NewInterest(conv, user))
                                     ELSE interests
                     /\ messages' = MarkRead(messages, tgt.interest, tgt.other_user, user)
                     /\ last' = [op |-> "open", user |-> user, conv |-> conv,
                                 result |-> "ok", interest |-> tgt.interest,
                                 created |-> tgt.created]
    /\ UNCHANGED <<handshakes, balances, savers, starters, conns, listings, now>>

\* OfferInterest.objects.create(offer=, user=, status='pending') /
\* NeedInterest...: unique_together rejects a second row for the pair
\* (IntegrityError)
InterestInsert(conv, user) ==
    /\ HasListing(conv)
    /\ IF InterestOf(conv, user) # Null
       THEN /\ last' = [op |-> "insert", user |-> user, conv |-> conv, ok |-> FALSE]
            /\ UNCHANGED interests
       ELSE /\ Len(interests) < MaxInterests
            /\ interests' = Append(interests, NewInterest(conv, user))
            /\ last' = [op |-> "insert", user |-> user, conv |-> conv, ok |-> TRUE]
    /\ UNCHANGED <<handshakes, balances, messages, savers, starters, conns, listings, now>>

(***************************************************************************)
(* REST: GET /conversations, the caller's conversation summary list.  A    *)
(* message's created_at is its position in messages; None is Null          *)
(***************************************************************************)
\* Message.objects.filter(interest).order_by('-created_at').first()
LastMessageTime(msgs, interest) ==
    LET of == { m \in DOMAIN msgs : msgs[m].interest = interest }
    IN  IF of = {} THEN Null ELSE CHOOSE m \in of : \A n \in of : n <= m

\* Message.objects.filter(interest, sender=other_user, recipient=user,
\* is_read=False).count()
UnreadCount(msgs, interest, other_user, user) ==
    Cardinality({ m \in DOMAIN msgs :
                     /\ msgs[m].interest = interest
                     /\ msgs[m].sender = other_user
                     /\ msgs[m].recipient = user
                     /\ ~msgs[m].is_read })

\* conversations.append({...}) for one interest
Entry(ints, msgs, interest, other_user, user) ==
    [id |-> [type |-> ints[interest].type, id |-> ints[interest].listing],
     interest |-> interest,
     otherUser |-> other_user,
     lastMessageTime |-> LastMessageTime(msgs, interest),
     unreadCount |-> UnreadCount(msgs, interest, other_user, user)]

\* Row ids of a table in its Meta.ordering ['-created_at']: latest first
LatestFirst(n) == [k \in 1..n |-> n + 1 - k]

\* for listing in <Listing>.objects.filter(user=user):
\*     for interest in <Interest>.objects.filter(listing).exclude(user=user)
CreatorCandidates(ints, msgs, user, type) ==
    LET OfListing(id) ==
            IF \E l \in Listings : l.type = type /\ l.id = id /\ l.user = user
            THEN LET rows == SelectSeq(LatestFirst(Len(ints)),
                                 LAMBDA i : /\ ints[i].type = type
                                            /\ ints[i].listing = id
                                            /\ ints[i].user # user)
                 IN  [k \in DOMAIN rows |->
                         Entry(ints, msgs, rows[k], ints[rows[k]].user, user)]
            ELSE << >>
    IN  OfListing(2) \o OfListing(1)

\* for interest in <Interest>.objects.filter(user=user)
HolderCandidates(ints, msgs, user, type) ==
    LET rows == SelectSeq(LatestFirst(Len(ints)),
                    LAMBDA i : /\ ints[i].type = type
                               /\ ints[i].user = user
                               /\ HasListing([type |-> type, id |-> ints[i].listing]))
    IN  [k \in DOMAIN rows |->
            Entry(ints, msgs, rows[k],
                  ListingOf([type |-> type, id |-> ints[rows[k]].listing]).user, user)]

\* conversations, in the order the four loops append to it
Candidates(ints, msgs, user) ==
    CreatorCandidates(ints, msgs, user, "offer") \o HolderCandidates(ints, msgs, user, "offer")
    \o CreatorCandidates(ints, msgs, user, "need") \o HolderCandidates(ints, msgs, user, "need")

RECURSIVE DedupKeepFirst(_)
DedupKeepFirst(cands) ==
    IF cands = << >> THEN << >>
    ELSE LET seen == DedupKeepFirst(SubSeq(cands, 1, Len(cands) - 1))
             conv == cands[Len(cands)]
         IN  IF \A k \in DOMAIN seen : seen[k].id # conv.id
             THEN Append(seen, conv)
             ELSE seen

\* seen = {}; for conv in conversations: ... seen[key] = conv;
\* list(seen.values()): a key keeps the position of its first insertion
RECURSIVE Dedup(_)
Dedup(cands) ==
    IF cands = << >> THEN << >>
    ELSE LET seen == Dedup(SubSeq(cands, 1, Len(cands) - 1))
             conv == cands[Len(cands)]
         IN  IF \A k \in DOMAIN seen : seen[k].id # conv.id
             THEN Append(seen, conv)
             ELSE LET k == CHOOSE k \in DOMAIN seen : seen[k].id = conv.id
                  IN  IF /\ conv.lastMessageTime # Null
                         /\ \/ seen[k].lastMessageTime = Null
                            \/ conv.lastMessageTime > seen[k].lastMessageTime
                      THEN [seen EXCEPT ![k] = conv]
                      ELSE seen

\* key=lambda x: x['lastMessageTime'] or '': the empty string is below
\* every timestamp
SortKey(conv) == conv.lastMessageTime

\* list.sort(key=..., reverse=True): stable, entries of equal key keep
\* their order
RECURSIVE SortDescending(_)
SortDescending(convs) ==
    IF convs = << >> THEN << >>
    ELSE LET sorted == SortDescending(SubSeq(convs, 1, Len(convs) - 1))
             conv == convs[Len(convs)]
             before == SelectSeq(sorted, LAMBDA e : SortKey(e) >= SortKey(conv))
             after == SelectSeq(sorted, LAMBDA e : SortKey(e) < SortKey(conv))
         IN  before \o << conv >> \o after

\* HoneyBalance.objects.get_or_create(user=other_user, defaults={'total_honey':
\* 3, 'provisioned_honey': 0}) for the other user of every candidate
GetOrCreateStarting(bals, users) ==
    [u \in DOMAIN bals \cup users |->
        IF u \in DOMAIN bals THEN bals[u] ELSE StartingBalance]

\* api_conversations for an authenticated user
Conversations(user) ==
    LET conversations == Candidates(interests, messages, user)
    IN  /\ balances' = GetOrCreateStarting(balances,
                           { conversations[k].otherUser : k \in DOMAIN conversations })
        /\ last' = [op |-> "summary", user |-> user,
                    list |-> SortDescending(Dedup(conversations))]
        /\ UNCHANGED <<interests, handshakes, messages, savers, starters, conns, listings, now>>

(***************************************************************************)
(* The admin site: MessageAdmin is a plain ModelAdmin, whose change form   *)
(* saves every field but created_at and whose delete view removes the row  *)
(***************************************************************************)
AdminContents == {"hi", "edited"}

\* MessageAdmin change view: a staff user saves message m
AdminMessageChange(m, content, is_read) ==
    /\ m \in DOMAIN messages
    /\ messages' = [messages EXCEPT ![m] = [@ EXCEPT !.content = content,
                                                      !.is_read = is_read]]
    /\ last' = [op |-> "admin_change", mid |-> m]
    /\ UNCHANGED <<interests, handshakes, balances, savers, starters, conns, listings, now>>

\* MessageAdmin delete view: a staff user deletes message m
AdminMessageDelete(m) ==
    /\ m \in DOMAIN messages
    /\ messages' = [k \in 1..(Len(messages) - 1) |->
                       IF k < m THEN messages[k] ELSE messages[k + 1]]
    /\ last' = [op |-> "admin_delete", mid |-> m]
    /\ UNCHANGED <<interests, handshakes, balances, savers, starters, conns, listings, now>>

(***************************************************************************)
(* Handshake.save() step by step: every query and every row write is a     *)
(* step of its own, and a balance instance is a copy of the row as loaded  *)
(***************************************************************************)
SaverHandshake(p) == [handshakes[savers[p].hid] EXCEPT !.status = savers[p].new_status]

\* old_handshake = Handshake.objects.get(pk=self.pk); the branch taken
SaveReadOld(p, hid, new_status) ==
    /\ savers[p].pc = "idle"
    /\ hid \in HandshakeIds
    /\ LET old_status == handshakes[hid].status
           effect == SaveEffect(old_status, new_status)
           amount == handshakes[hid].honey_amount
       IN  savers' = [savers EXCEPT ![p] =
                         [@ EXCEPT !.pc = IF effect = "none" \/ amount <= 0
                                          THEN "write" ELSE effect,
                                   !.hid = hid,
                                   !.new_status = new_status,
                                   !.old_status = old_status]]
    /\ UNCHANGED <<interests, handshakes, balances, messages, starters, conns, last, listings, now>>

\* _finalize_honey_transaction: get_or_create of the spender's balance
SaveLoadSpender(p) ==
    /\ savers[p].pc = "finalize"
    /\ LET spender == get_spender(SaverHandshake(p))
           loaded == GetOrCreateZero(balances, spender)
       IN  /\ balances' = loaded
           /\ savers' = [savers EXCEPT ![p] = [@ EXCEPT !.pc = "load_earner",
                                                        !.spender_balance = loaded[spender]]]
    /\ UNCHANGED <<interests, handshakes, messages, starters, conns, last, listings, now>>

\* _finalize_honey_transaction: get_or_create of the earner's balance
SaveLoadEarner(p) ==
    /\ savers[p].pc = "load_earner"
    /\ LET earner == get_earner(SaverHandshake(p))
           loaded == GetOrCreateZero(balances, earner)
       IN  /\ balances' = loaded
           /\ savers' = [savers EXCEPT ![p] = [@ EXCEPT !.pc = "finalize_transaction",
                                                        !.earner_balance = loaded[earner]]]
    /\ UNCHANGED <<interests, handshakes, messages, starters, conns, last, listings, now>>

\* spender_balance.finalize_transaction(honey_amount): check + self.save()
SaveFinalize(p) ==
    /\ savers[p].pc = "finalize_transaction"
    /\ LET self == SaverHandshake(p)
           fin == finalize_transaction(savers[p].spender_balance, self.honey_amount)
       IN  IF fin.ok
           THEN /\ balances' = [balances EXCEPT ![get_spender(self)] = fin.bal]
                /\ savers' = [savers EXCEPT ![p] = [@ EXCEPT !.pc = "add_honey",
                                                             !.applied = TRUE]]
           ELSE /\ savers' = [savers EXCEPT ![p] = [@ EXCEPT !.pc = "write"]]
                /\ UNCHANGED balances
    /\ UNCHANGED <<interests, handshakes, messages, starters, conns, last, listings, now>>

\* earner_balance.add_honey(honey_amount): self.save()
SaveAddHoney(p) ==
    /\ savers[p].pc = "add_honey"
    /\ LET self == SaverHandshake(p)
       IN  balances' = [balances EXCEPT ![get_earner(self)] =
                           add_honey(savers[p].earner_balance, self.honey_amount).bal]
    /\ savers' = [savers EXCEPT ![p] = [@ EXCEPT !.pc = "write"]]
    /\ UNCHANGED <<interests, handshakes, messages, starters, conns, last, listings, now>>

\* _release_provisioned_honey: HoneyBalance.objects.get(user=spender)
SaveLoadForRelease(p) ==
    /\ savers[p].pc = "release"
    /\ LET spender == get_spender(SaverHandshake(p))
       IN  savers' = [savers EXCEPT ![p] =
                         IF spender \in DOMAIN balances
                         THEN [@ EXCEPT !.pc = "release_provision",
                                        !.spender_balance = balances[spender]]
                         ELSE [@ EXCEPT !.pc = "write"]]
    /\ UNCHANGED <<interests, handshakes, balances, messages, starters, conns, last, listings, now>>

\* spender_balance.release_provision(honey_amount): check + self.save()
SaveRelease(p) ==
    /\ savers[p].pc = "release_provision"
    /\ LET self == SaverHandshake(p)
           rel == release_provision(savers[p].spender_balance, self.honey_amount)
       IN  IF rel.ok
           THEN /\ balances' = [balances EXCEPT ![get_spender(self)] = rel.bal]
                /\ savers' = [savers EXCEPT ![p] = [@ EXCEPT !.pc = "write",
                                                             !.applied = TRUE]]
           ELSE /\ savers' = [savers EXCEPT ![p] = [@ EXCEPT !.pc = "write"]]
                /\ UNCHANGED balances
    /\ UNCHANGED <<interests, handshakes, messages, starters, conns, last, listings, now>>

\* self.full_clean(); super().save(): the handshake row is written
SaveWrite(p) ==
    /\ savers[p].pc = "write"
    /\ handshakes' = IF clean(SaverHandshake(p))
                     THEN [handshakes EXCEPT ![savers[p].hid] = SaverHandshake(p)]
                     ELSE handshakes
    /\ savers' = [savers EXCEPT ![p] = [@ EXCEPT !.pc = "done"]]
    /\ UNCHANGED <<interests, balances, messages, starters, conns, last, listings, now>>

(***************************************************************************)
(* ChatConsumer.create_handshake step by step: the reads (listing, creator  *)
(* check, interest, hasattr(interest, 'handshake')) are one step and        *)
(* Handshake.objects.create is another, so two calls can interleave         *)
(***************************************************************************)
IdleStarter == [pc |-> "idle", user |-> NoUser, conv |-> [type |-> "none", id |-> Null],
                result |-> "none", hid |-> Null]

\* The row create_handshake inserts for `user` on `conv`
StartRow(user, conv) ==
    NewHandshake(IF conv.type = "offer" THEN InterestOf(conv, user) ELSE Null,
                 IF conv.type = "need" THEN InterestOf(conv, user) ELSE Null,
                 ListingOf(conv).user, user, "active", 0)

\* Offer.objects.get ... hasattr(interest, 'handshake'): returns None or the
\* "already exists" dict at once, or goes on to create
StartResolve(p, user, conv) ==
    /\ starters[p].pc = "idle"
    /\ HasListing(conv)
    /\ LET res == CreateHandshakeResult(user, conv)
       IN  starters' = [starters EXCEPT ![p] =
                           [pc |-> IF res.kind = "created" THEN "insert" ELSE "done",
                            user |-> user,
                            conv |-> conv,
                            result |-> IF res.kind = "created" THEN "pending" ELSE res.kind,
                            hid |-> IF res.kind = "exists" THEN res.hid ELSE Null]]
    /\ UNCHANGED <<interests, handshakes, balances, messages, savers, conns, last, listings, now>>

\* Handshake.objects.create(...): full_clean() and the INSERT under the
\* one-to-one constraint; an error is caught and the call returns None
StartInsert(p) ==
    /\ starters[p].pc = "insert"
    /\ LET row == StartRow(starters[p].user, starters[p].conv)
       IN  IF InsertAllowed(row)
           THEN /\ Len(handshakes) < MaxHandshakes
                /\ handshakes' = Append(handshakes, row)
                /\ starters' = [starters EXCEPT ![p] =
                                   [@ EXCEPT !.pc = "done", !.result = "created",
                                             !.hid = Len(handshakes) + 1]]
           ELSE /\ starters' = [starters EXCEPT ![p] =
                                   [@ EXCEPT !.pc = "done", !.result = "none"]]
                /\ UNCHANGED handshakes
    /\ UNCHANGED <<interests, balances, messages, savers, conns, last, listings, now>>

\* receive(): create_handshake has returned; a result other than None is
\* sent to the group, and the connection waits for its next event
StartReturn(p) ==
    /\ starters[p].pc = "done"
    /\ last' = [op |-> "handshake_start", user |-> starters[p].user,
                conv |-> starters[p].conv, result |-> starters[p].result,
                hid |-> starters[p].hid,
                broadcast |-> starters[p].result # "none"]
    /\ starters' = [starters EXCEPT ![p] = IdleStarter]
    /\ UNCHANGED <<interests, handshakes, balances, messages, savers, conns, listings, now>>

(***************************************************************************)
(* ChatConsumer connections                                                *)
(***************************************************************************)
ConnIds == {1, 2, 3}

\* scope['url_route']['kwargs'].get('conversation_id') is missing
NoConv == [type |-> "none", id |-> Null]

\* A connection nobody has opened yet.  token_user is the user the token in
\* the query string / header resolves to in the cache (NoUser: no or unknown
\* token); passed lists the checks of connect() passed so far; inbox is what
\* self.send() has written to the socket; pending is the message saved by
\* receive() and not yet sent to the group.
NewConn == [state |-> "idle", token_user |-> NoUser, user |-> NoUser, conv |-> NoConv,
            code |-> 0, in_group |-> FALSE, accepted |-> FALSE, passed |-> << >>,
            inbox |-> << >>, pending |-> Null]

\* The conversation ids a client can put in the URL: the ids of ConvIds,
\* "chat_1" (a type that is neither offer nor need), "offer" / "offer_x"
\* (no integer id after the type), or none at all.
ConvInputs ==
    ConvIds \cup { [type |-> "chat", id |-> 1], [type |-> "offer", id |-> Null], NoConv }

verify_conversation_access_parties(user, conv) ==
    /\ conv.id # Null
    /\ conv.type \in {"offer", "need"}
    /\ HasListing(conv)
    /\ (ListingOf(conv).user = user \/ InterestOf(conv, user) # Null)

\* ChatConsumer.verify_conversation_access: the id parses, the type is offer
\* or need and the listing exists; creator or not makes no difference
verify_conversation_access(user, conv) ==
    /\ conv.id # Null
    /\ conv.type \in {"offer", "need"}
    /\ HasListing(conv)
    /\ (ListingOf(conv).user = user \/ ListingOf(conv).user # user)

\* connect(): self.user = await self.authenticate_user(); close(4001) if None
ConnAuthenticate(c, token_user, conv) ==
    /\ conns[c].state = "idle"
    /\ conns' = [conns EXCEPT ![c] =
                    IF token_user = NoUser
                    THEN [@ EXCEPT !.state = "closed", !.token_user = token_user,
                                   !.conv = conv, !.code = 4001]
                    ELSE [@ EXCEPT !.state = "authenticated", !.token_user = token_user,
                                   !.conv = conv, !.user = token_user,
                                   !.passed = Append(@, "token")]]
    /\ UNCHANGED <<interests, handshakes, balances, messages, savers, starters, last, listings, now>>

\* connect(): the conversation id from the URL route; close(4000) if missing
ConnCheckId(c) ==
    /\ conns[c].state = "authenticated"
    /\ conns' = [conns EXCEPT ![c] =
                    IF conns[c].conv = NoConv
                    THEN [@ EXCEPT !.state = "closed", !.code = 4000]
                    ELSE [@ EXCEPT !.state = "has_id", !.passed = Append(@, "id")]]
    /\ UNCHANGED <<interests, handshakes, balances, messages, savers, starters, last, listings, now>>

\* connect(): await self.verify_conversation_access(...); close(4003) if False
ConnVerify(c) ==
    /\ conns[c].state = "has_id"
    /\ conns' = [conns EXCEPT ![c] =
                    IF verify_conversation_access(conns[c].user, conns[c].conv)
                    THEN [@ EXCEPT !.state = "authorized", !.passed = Append(@, "listing")]
                    ELSE [@ EXCEPT !.state = "closed", !.code = 4003]]
    /\ UNCHANGED <<interests, handshakes, balances, messages, savers, starters, last, listings, now>>

\* connect(): await self.channel_layer.group_add(room_group_name, channel_name)
ConnJoin(c) ==
    /\ conns[c].state = "authorized"
    /\ conns' = [conns EXCEPT ![c] = [@ EXCEPT !.state = "joined", !.in_group = TRUE]]
    /\ UNCHANGED <<interests, handshakes, balances, messages, savers, starters, last, listings, now>>

\* connect(): await self.accept()
ConnAccept(c) ==
    /\ conns[c].state = "joined"
    /\ conns' = [conns EXCEPT ![c] = [@ EXCEPT !.state = "open", !.accepted = TRUE]]
    /\ UNCHANGED <<interests, handshakes, balances, messages, savers, starters, last, listings, now>>

\* disconnect(): the socket of an accepted connection went away; the
\* connection leaves its group
ConnDisconnect(c) ==
    /\ conns[c].state = "open"
    /\ conns' = [conns EXCEPT ![c] = [@ EXCEPT !.state = "closed", !.in_group = FALSE]]
    /\ UNCHANGED <<interests, handshakes, balances, messages, savers, starters, last, listings, now>>

(***************************************************************************)
(* ChatConsumer.receive on an accepted connection, one await at a time:    *)
(* save_message (a database call in a worker thread) and group_send are    *)
(* separate awaits, and other connections run between them                 *)
(***************************************************************************)
\* Inbound frames: {type: "message", content: <string>}; a type no branch
\* handles ("ping"); no type key; text that is not JSON; JSON that is not
\* an object; and a message whose content is not a string
Events ==
    { [payload |-> "object", type |-> "message", content |-> c] : c \in Contents }
    \cup { [payload |-> "object", type |-> "ping", content |-> "hi"],
           [payload |-> "object", type |-> "missing", content |-> "hi"],
           [payload |-> "invalid_json", type |-> "missing", content |-> ""],
           [payload |-> "array", type |-> "missing", content |-> ""],
           [payload |-> "object", type |-> "message", content |-> "not_a_string"] }

ErrorEvent(reason) == [type |-> "error", message |-> reason, mid |-> Null]

MessageEvent(mid) == [type |-> "message", message |-> "chat_message", mid |-> mid]

ErrorCount ==
    Cardinality({ ci \in ConnIds \X (1..(MaxSends + MaxErrors)) :
                     /\ ci[2] <= Len(conns[ci[1]].inbox)
                     /\ conns[ci[1]].inbox[ci[2]].type = "error" })

\* self.send(text_data=json.dumps({'type': 'error', ...})): to this socket
SendError(c, reason) ==
    /\ ErrorCount < MaxErrors
    /\ conns' = [conns EXCEPT ![c] = [@ EXCEPT !.inbox = Append(@, ErrorEvent(reason))]]

\* receive(text_data) up to and including await self.save_message(content)
ChatReceive(c, ev) ==
    /\ conns[c].state = "open"
    /\ LET user == conns[c].user
           conv == conns[c].conv
           tgt == MessageTarget(user, conv)
       IN  IF ev.payload = "invalid_json"
           THEN /\ SendError(c, "Invalid JSON")
                /\ last' = [op |-> "chat", conn |-> c, event |-> ev, result |-> "error"]
                /\ UNCHANGED <<interests, messages>>
           ELSE IF ev.payload = "array"
           THEN /\ SendError(c, "exception")
                /\ last' = [op |-> "chat", conn |-> c, event |-> ev, result |-> "error"]
                /\ UNCHANGED <<interests, messages>>
           ELSE IF ev.type # "message"
           THEN /\ last' = [op |-> "chat", conn |-> c, event |-> ev, result |-> "ignored"]
                /\ UNCHANGED <<interests, messages, conns>>
           ELSE IF ev.content = "not_a_string"
           THEN /\ SendError(c, "exception")
                /\ last' = [op |-> "chat", conn |-> c, event |-> ev, result |-> "error"]
                /\ UNCHANGED <<interests, messages>>
           ELSE IF Strip(ev.content) = ""
           THEN /\ SendError(c, "Content is required")
                /\ last' = [op |-> "chat", conn |-> c, event |-> ev, result |-> "error"]
                /\ UNCHANGED <<interests, messages>>
           ELSE IF tgt.interest = Null
           THEN /\ last' = [op |-> "chat", conn |-> c, event |-> ev, result |-> "none"]
                /\ UNCHANGED <<interests, messages, conns>>
           ELSE /\ tgt.created => Len(interests) < MaxInterests
                /\ Len(messages) < MaxSends
                /\ interests' = IF tgt.created
                                THEN Append(interests, NewInterest(conv, user))
                                ELSE interests
                /\ messages' = Append(messages,
                                   [interest |-> tgt.interest, sender |-> user,
                                    recipient |-> tgt.recipient,
                                    content |-> Strip(ev.content), is_read |-> FALSE])
                /\ conns' = [conns EXCEPT ![c] = [@ EXCEPT !.state = "sending",
                                                           !.pending = Len(messages) + 1]]
                /\ last' = [op |-> "chat", conn |-> c, event |-> ev, result |-> "saved"]
    /\ UNCHANGED <<handshakes, balances, savers, starters, listings, now>>

\* await self.channel_layer.group_send(room_group_name, {'type':
\* 'chat_message', ...}) and chat_message() of every member of the group:
\* the event reaches each member's socket after what was sent to it before
ChatBroadcast(c) ==
    /\ conns[c].state = "sending"
    /\ conns' = [d \in ConnIds |->
                    LET delivered == IF conns[d].in_group /\ conns[d].conv = conns[c].conv
                                     THEN [conns[d] EXCEPT
                                              !.inbox = Append(@, MessageEvent(conns[c].pending))]
                                     ELSE conns[d]
                    IN  IF d = c
                        THEN [delivered EXCEPT !.state = "open", !.pending = Null]
                        ELSE delivered]
    /\ last' = [op |-> "broadcast", conn |-> c, mid |-> conns[c].pending]
    /\ UNCHANGED <<interests, handshakes, balances, messages, savers, starters, listings, now>>

(***************************************************************************)
(* Offer / Need rows: save() with its lazy expiry, and PUT/PATCH            *)
(* /offers/{id}, /needs/{id}                                                *)
(***************************************************************************)
OfferStatuses == {"active", "fulfilled", "paused", "expired"}

NeedStatuses == {"open", "in_progress", "fulfilled", "closed"}

ListingStatuses(conv) == IF conv.type = "offer" THEN OfferStatuses ELSE NeedStatuses

\* The conversation ids that name a listing
ListingConvs == { conv \in ConvIds : HasListing(conv) }

\* The two listings as created: default status, no expires_at
InitialListings ==
    [conv \in ListingConvs |->
        [status |-> IF conv.type = "offer" THEN "active" ELSE "open",
         expires_at |-> Null, title |-> "old title"]]

is_expired_or_due(self, t) == self.expires_at # Null /\ t >= self.expires_at

\* Offer.is_expired / Need.is_expired at time t
is_expired(self, t) == self.expires_at # Null /\ t > self.expires_at

\* Offer.save / Need.save: the row written for instance self at time t
SavedListing(conv, self, t) ==
    IF conv.type = "offer"
    THEN IF is_expired(self, t) /\ self.status = "active"
         THEN [self EXCEPT !.status = "expired"] ELSE self
    ELSE IF is_expired(self, t) /\ self.status = "open"
         THEN [self EXCEPT !.status = "closed"] ELSE self

\* listing.status = status; listing.expires_at = expires_at; listing.save()
ListingSave(conv, status, expires_at) ==
    LET self == [listings[conv] EXCEPT !.status = status, !.expires_at = expires_at]
    IN  /\ listings' = [listings EXCEPT ![conv] = SavedListing(conv, self, now)]
        /\ last' = [op |-> "listing_save", conv |-> conv, self |-> self]
        /\ UNCHANGED <<interests, handshakes, balances, messages, savers, starters, conns, now>>

\* time passes
Tick ==
    /\ now < MaxNow
    /\ now' = now + 1
    /\ last' = [op |-> "tick"]
    /\ UNCHANGED <<interests, handshakes, balances, messages, savers, starters, conns, listings>>

\* Titles of a PUT/PATCH body: none given, one of 4 characters, a valid one
Titles == {"none", "tiny", "new title"}

\* Descriptions of a PUT/PATCH body: none given, or one below 20 characters
Descriptions == {"none", "short"}

TitleLength(title) == IF title = "tiny" THEN 4 ELSE 9

UpdateStatusNoOwnerCheck(conv, authenticated_user, title, description) ==
    IF authenticated_user = NoUser THEN 401
    ELSE IF ~HasListing(conv) THEN 404
    ELSE IF title # "none" /\ TitleLength(title) < 5 THEN 400
    ELSE IF description # "none" THEN 400
    ELSE 200

\* api_offer_detail / api_need_detail, PUT or PATCH: the status answered
UpdateStatus(conv, authenticated_user, title, description) ==
    IF authenticated_user = NoUser THEN 401
    ELSE IF ~HasListing(conv) THEN 404
    ELSE IF ListingOf(conv).user # authenticated_user THEN 403
    ELSE IF title # "none" /\ TitleLength(title) < 5 THEN 400
    ELSE IF description # "none" THEN 400
    ELSE 200

\* api_offer_detail / api_need_detail, PUT or PATCH
UpdateListing(conv, authenticated_user, title, description) ==
    LET code == UpdateStatus(conv, authenticated_user, title, description)
    IN  /\ listings' =
              IF code = 200
              THEN LET self == IF title = "none" THEN listings[conv]
                               ELSE [listings[conv] EXCEPT !.title = title]
                   IN  [listings EXCEPT ![conv] = SavedListing(conv, self, now)]
              ELSE listings
        /\ last' = [op |-> "update", conv |-> conv, user |-> authenticated_user,
                    title |-> title, code |-> code]
        /\ UNCHANGED <<interests, handshakes, balances, messages, savers, starters, conns, now>>

(***************************************************************************)
(* Specifications                                                          *)
(***************************************************************************)
NoLast == [op |-> "init"]

Idle == [pc |-> "idle", hid |-> Null, new_status |-> "none", old_status |-> "none",
         spender_balance |-> Balance(0, 0), earner_balance |-> Balance(0, 0),
         applied |-> FALSE]

Savers == {1, 2}

Starters == {1, 2}

\* The ledger alone: registered users' balances under the five operations.
InitLedger ==
    /\ interests = << >>
    /\ handshakes = << >>
    /\ balances = [u \in {"alice", "bob"} |-> StartingBalance]
    /\ messages = << >>
    /\ savers = [p \in Savers |-> Idle]
    /\ starters = [p \in Starters |-> IdleStarter]
    /\ conns = [c \in ConnIds |-> NewConn]
    /\ listings = InitialListings
    /\ now = 1
    /\ last = NoLast

NextLedger ==
    \E u \in Users, amount \in 0..MaxAmount :
        \/ Provision(u, amount)
        \/ ReleaseProvision(u, amount)
        \/ AddHoney(u, amount)
        \/ DeductHoney(u, amount)
        \/ FinalizeTransaction(u, amount)

SpecLedger == InitLedger /\ [][NextLedger]_vars

\* The model layer: handshakes created with a honey_amount, honey reserved on
\* the spender of a live handshake with provision(), and status saves.  Users
\* made by api_register have a balance row; alice may have been made without
\* one (createsuperuser, populate_mock_data).
InitModels ==
    /\ interests = << [type |-> "offer", listing |-> 1, user |-> "bob", status |-> "pending"],
                      [type |-> "need", listing |-> 1, user |-> "alice", status |-> "pending"] >>
    /\ handshakes = << >>
    /\ \E registered \in {Users, Users \ {"alice"}} :
          balances = [u \in registered |-> StartingBalance]
    /\ messages = << >>
    /\ savers = [p \in Savers |-> Idle]
    /\ starters = [p \in Starters |-> IdleStarter]
    /\ conns = [c \in ConnIds |-> NewConn]
    /\ listings = InitialListings
    /\ now = 1
    /\ last = NoLast

\* Handshake.objects.create for interest i, as consumers.py and the tests fill
\* user1 / user2, with a honey_amount
CreateFor(i, amount) ==
    LET conv == [type |-> interests[i].type, id |-> interests[i].listing]
    IN  HandshakeCreate(IF interests[i].type = "offer" THEN i ELSE Null,
                        IF interests[i].type = "need" THEN i ELSE Null,
                        ListingOf(conv).user, interests[i].user, "active", amount)

\* Handshake.objects.create with any combination of the two interest fields
\* (none, one, both), the users taken from the interest that is given
CreateWith(oi, ni) ==
    LET i == IF oi # Null THEN oi ELSE IF ni # Null THEN ni ELSE 1
        conv == [type |-> interests[i].type, id |-> interests[i].listing]
    IN  HandshakeCreate(oi, ni, ListingOf(conv).user, interests[i].user, "active", 0)

NextModels ==
    \/ \E i \in InterestIds, amount \in 0..MaxAmount : CreateFor(i, amount)
    \/ \E oi \in {Null} \cup {i \in InterestIds : interests[i].type = "offer"},
          ni \in {Null} \cup {i \in InterestIds : interests[i].type = "need"} :
          CreateWith(oi, ni)
    \/ \E h \in HandshakeIds :
          /\ handshakes[h].status \in {"active", "in_progress"}
          /\ Provision(get_spender(handshakes[h]), handshakes[h].honey_amount)
    \/ \E h \in HandshakeIds, st \in Statuses : HandshakeSave(h, st)

SpecModels == InitModels /\ [][NextModels]_vars

\* The running program: chat events of joined connections, and status saves
\* (the admin's Handshake form edits status; honey_amount is not on it).
Init ==
    /\ interests = << >>
    /\ handshakes = << >>
    /\ balances = [u \in Users |-> StartingBalance]
    /\ messages = << >>
    /\ savers = [p \in Savers |-> Idle]
    /\ starters = [p \in Starters |-> IdleStarter]
    /\ conns = [c \in ConnIds |-> NewConn]
    /\ listings = InitialListings
    /\ now = 1
    /\ last = NoLast

Next ==
    \/ \E u \in Users, conv \in ConvIds, content \in Contents :
          ReceiveMessage(u, conv, content)
    \/ \E u \in Users, conv \in ConvIds : ReceiveHandshakeStart(u, conv)
    \/ \E u \in Users, conv \in ConvIds : ReceiveHandshakeApprove(u, conv)
    \/ \E h \in HandshakeIds, st \in Statuses : HandshakeSave(h, st)

Spec == Init /\ [][Next]_vars

\* Two save() calls in flight on one handshake: an Offer-derived handshake of
\* bob (spender) with alice (earner), its honey_amount reserved on bob.
InitConc ==
    /\ interests = << [type |-> "offer", listing |-> 1, user |-> "bob", status |-> "pending"] >>
    /\ \E st \in {"active", "in_progress"}, amount \in 1..MaxAmount :
          /\ handshakes = << NewHandshake(1, Null, "alice", "bob", st, amount) >>
          /\ \E p \in amount..3 :
                balances = [u \in Users |->
                               IF u = "bob" THEN Balance(3, p) ELSE StartingBalance]
    /\ messages = << >>
    /\ savers = [p \in Savers |-> Idle]
    /\ starters = [p \in Starters |-> IdleStarter]
    /\ conns = [c \in ConnIds |-> NewConn]
    /\ listings = InitialListings
    /\ now = 1
    /\ last = NoLast

NextConc ==
    \E p \in Savers :
        \/ \E h \in HandshakeIds, st \in {"completed", "cancelled"} : SaveReadOld(p, h, st)
        \/ SaveLoadSpender(p)
        \/ SaveLoadEarner(p)
        \/ SaveFinalize(p)
        \/ SaveAddHoney(p)
        \/ SaveLoadForRelease(p)
        \/ SaveRelease(p)
        \/ SaveWrite(p)

SpecConc == InitConc /\ [][NextConc]_vars

\* Two create_handshake calls in flight.  bob is the spender of both
\* conversations: he holds the interest on alice's offer 1 ("2 Hours"), and
\* alice holds the interest on his need 1 ("4 Hours").
InitStart ==
    /\ interests = << [type |-> "offer", listing |-> 1, user |-> "bob", status |-> "pending"],
                      [type |-> "need", listing |-> 1, user |-> "alice", status |-> "pending"] >>
    /\ handshakes = << >>
    /\ balances = [u \in Users |-> StartingBalance]
    /\ messages = << >>
    /\ savers = [p \in Savers |-> Idle]
    /\ starters = [p \in Starters |-> IdleStarter]
    /\ conns = [c \in ConnIds |-> NewConn]
    /\ listings = InitialListings
    /\ now = 1
    /\ last = NoLast

NextStart ==
    \E p \in Starters :
        \/ \E u \in Users, conv \in ConvIds : StartResolve(p, u, conv)
        \/ StartInsert(p)
        \/ StartReturn(p)

SpecStart == InitStart /\ [][NextStart]_vars

\* Conversations: opening a conversation over REST, chat messages, and
\* interests inserted directly for a user other than the listing's creator
\* (as the tests and the admin do).
NextInterests ==
    \/ \E u \in Users, conv \in ConvIds : OpenConversation(u, conv)
    \/ \E u \in Users, conv \in ConvIds, content \in Contents :
          ReceiveMessage(u, conv, content)
    \/ \E u \in Users, conv \in ConvIds :
          /\ HasListing(conv)
          /\ ListingOf(conv).user # u
          /\ InterestInsert(conv, u)

SpecInterests == Init /\ [][NextInterests]_vars

\* The conversation summary list of every user, between chat messages and
\* conversations being opened over REST on the two listings.
NextSummary ==
    \/ \E u \in Users : Conversations(u)
    \/ \E u \in Users, conv \in ConvIds :
          /\ HasListing(conv)
          /\ OpenConversation(u, conv)
    \/ \E u \in Users, conv \in ConvIds, content \in Contents :
          ReceiveMessage(u, conv, content)

SpecSummary == Init /\ [][NextSummary]_vars

\* Messages over their whole life on the conversation of alice's offer 1:
\* sent over the socket, read over REST, and edited or deleted by staff in
\* the admin site.
NextAdmin ==
    \/ \E u \in Users, content \in Contents :
          ReceiveMessage(u, [type |-> "offer", id |-> 1], content)
    \/ \E u \in Users : OpenConversation(u, [type |-> "offer", id |-> 1])
    \/ \E m \in 1..MaxMessages, content \in AdminContents, is_read \in BOOLEAN :
          AdminMessageChange(m, content, is_read)
    \/ \E m \in 1..MaxMessages : AdminMessageDelete(m)

SpecAdmin == Init /\ [][NextAdmin]_vars

\* Connections being opened: any token, any conversation id.  bob holds an
\* interest on alice's offer 1; carol holds none.
InitConnect ==
    /\ interests = << [type |-> "offer", listing |-> 1, user |-> "bob", status |-> "pending"] >>
    /\ handshakes = << >>
    /\ balances = [u \in Users |-> StartingBalance]
    /\ messages = << >>
    /\ savers = [p \in Savers |-> Idle]
    /\ starters = [p \in Starters |-> IdleStarter]
    /\ conns = [c \in ConnIds |-> NewConn]
    /\ listings = InitialListings
    /\ now = 1
    /\ last = NoLast

NextConnect ==
    \E c \in ConnIds :
        \/ \E token_user \in Users \cup {NoUser}, conv \in ConvInputs :
              ConnAuthenticate(c, token_user, conv)
        \/ ConnCheckId(c)
        \/ ConnVerify(c)
        \/ ConnJoin(c)
        \/ ConnAccept(c)
        \/ ConnDisconnect(c)

SpecConnect == InitConnect /\ [][NextConnect]_vars

\* A connection that connect() accepted for user on conversation conv
OpenConn(user, conv) ==
    [NewConn EXCEPT !.state = "open", !.token_user = user, !.user = user, !.conv = conv,
                    !.in_group = TRUE, !.accepted = TRUE,
                    !.passed = << "token", "id", "listing" >>]

\* alice (the creator) and bob are connected to the conversation of alice's
\* offer 1, carol to that of bob's need 1; nobody has expressed interest yet
InitChat ==
    /\ interests = << >>
    /\ handshakes = << >>
    /\ balances = [u \in Users |-> StartingBalance]
    /\ messages = << >>
    /\ savers = [p \in Savers |-> Idle]
    /\ starters = [p \in Starters |-> IdleStarter]
    /\ conns = [c \in ConnIds |->
                   CASE c = 1 -> OpenConn("alice", [type |-> "offer", id |-> 1])
                     [] c = 2 -> OpenConn("bob", [type |-> "offer", id |-> 1])
                     [] OTHER -> OpenConn("carol", [type |-> "need", id |-> 1])]
    /\ listings = InitialListings
    /\ now = 1
    /\ last = NoLast

NextChat ==
    \E c \in ConnIds :
        \/ \E ev \in Events : ChatReceive(c, ev)
        \/ ChatBroadcast(c)

SpecChat == InitChat /\ [][NextChat]_vars

\* alice (the creator), bob and carol are all connected to the conversation
\* of alice's offer 1; nobody has expressed interest yet
InitRoom ==
    /\ interests = << >>
    /\ handshakes = << >>
    /\ balances = [u \in Users |-> StartingBalance]
    /\ messages = << >>
    /\ savers = [p \in Savers |-> Idle]
    /\ starters = [p \in Starters |-> IdleStarter]
    /\ conns = [c \in ConnIds |->
                   CASE c = 1 -> OpenConn("alice", [type |-> "offer", id |-> 1])
                     [] c = 2 -> OpenConn("bob", [type |-> "offer", id |-> 1])
                     [] OTHER -> OpenConn("carol", [type |-> "offer", id |-> 1])]
    /\ listings = InitialListings
    /\ now = 1
    /\ last = NoLast

\* The three of them send well-formed message events
NextRoom ==
    \E c \in ConnIds :
        \/ \E ev \in { e \in Events : e.payload = "object" /\ e.type = "message" } :
              ChatReceive(c, ev)
        \/ ChatBroadcast(c)

SpecRoom == InitRoom /\ [][NextRoom]_vars

\* Duration strings handed to parse_duration_to_hours: '' and a string
\* without a number, "<n> Hours" and a bare "<n>" with n in tenths, and
\* "<m> Minutes" with m whole
DurationInputs ==
    { Duration(0, "empty"), Duration(0, "nonum") }
    \cup { Duration(t, unit) : t \in 0..MaxTenths, unit \in {"hour", "none"} }
    \cup { Duration(10 * m, "minute") : m \in 0..MaxMinutes }

\* hours = parse_duration_to_hours(duration), as api_offers / api_needs and
\* Handshake.get_honey_amount call it
ParseDuration(d) ==
    /\ last' = [op |-> "parse", input |-> d, hours |-> parse_duration_to_hours(d)]
    /\ UNCHANGED <<interests, handshakes, balances, messages, savers, starters, conns, listings, now>>

NextParse == \E d \in DurationInputs : ParseDuration(d)

SpecParse == Init /\ [][NextParse]_vars

\* Listings over time, saved with any status and any expiry date
NextListings ==
    \/ Tick
    \/ \E conv \in ListingConvs :
          \E status \in ListingStatuses(conv), expires_at \in {Null} \cup 1..MaxNow :
             ListingSave(conv, status, expires_at)

SpecListings == Init /\ [][NextListings]_vars

\* Listings updated over REST by anybody, while their owners give them an
\* expiry date
NextUpdate ==
    \/ Tick
    \/ \E conv \in ListingConvs, expires_at \in 1..MaxNow :
          ListingSave(conv, listings[conv].status, expires_at)
    \/ \E conv \in ConvIds, user \in Users \cup {NoUser}, title \in Titles,
          description \in Descriptions :
          UpdateListing(conv, user, title, description)

SpecUpdate == Init /\ [][NextUpdate]_vars

(***************************************************************************)
(* Properties                                                              *)
(***************************************************************************)
NonTerminal == {"active", "in_progress"}
Terminal == {"completed", "cancelled"}

\* C1: every balance keeps 0 <= provisioned_honey <= total_honey under any
\* sequence of the five ledger operations, failing calls included.
C1_BalanceInvariant ==
    \A u \in DOMAIN balances :
        /\ 0 <= balances[u].provisioned_honey
        /\ balances[u].provisioned_honey <= balances[u].total_honey

\* C2: a handshake_start that creates a handshake stores status active,
\* user1 = listing creator, user2 = the sender, honey_amount = the listing's
\* duration in hours, and adds exactly that amount to the spender's
\* provisioned_honey.
C2_StartProvisions ==
    [][ (last'.op = "handshake_start" /\ last'.result = "created"
         /\ Len(handshakes') = Len(handshakes) + 1)
        => LET h == handshakes'[last'.hid]
               listing == ListingOf(last'.conv)
               hours == parse_duration_to_hours(listing.duration)
               spender == IF listing.type = "offer" THEN last'.user ELSE listing.user
           IN  /\ h.status = "active"
               /\ h.user1 = listing.user
               /\ h.user2 = last'.user
               /\ h.honey_amount = hours
               /\ balances'[spender].provisioned_honey
                     = balances[spender].provisioned_honey + hours
               /\ balances'[spender].total_honey = balances[spender].total_honey
      ]_vars

\* C3: a handshake_start whose spender has less usable honey than the
\* listing's duration in hours creates no handshake row and changes no
\* balance.
C3_StartInsufficientFunds ==
    [][ (last'.op = "handshake_start" /\ HasListing(last'.conv))
        => LET listing == ListingOf(last'.conv)
               hours == parse_duration_to_hours(listing.duration)
               spender == IF listing.type = "offer" THEN last'.user ELSE listing.user
           IN  (spender \in DOMAIN balances /\ usable_honey(balances[spender]) < hours)
               => /\ handshakes' = handshakes
                  /\ balances' = balances
                  /\ last'.result # "created"
      ]_vars

\* C4: every change of a handshake's status is active->in_progress,
\* active->completed, in_progress->completed, active->cancelled or
\* in_progress->cancelled; a completed or cancelled handshake keeps its status.
AllowedTransitions ==
    { <<"active", "in_progress">>, <<"active", "completed">>,
      <<"in_progress", "completed">>, <<"active", "cancelled">>,
      <<"in_progress", "cancelled">> }

C4_StatusTransitions ==
    [][ \A h \in HandshakeIds :
           handshakes'[h].status # handshakes[h].status
           => <<handshakes[h].status, handshakes'[h].status>> \in AllowedTransitions
      ]_vars

\* C5: a handshake_approve changes a handshake only when the sender is the
\* listing creator and the handshake is active, and then to in_progress; in
\* every other case it is rejected and every handshake is unchanged.
C5_ApproveGuarded ==
    [][ (last'.op = "handshake_approve" /\ HasListing(last'.conv))
        => LET hid == last'.hid
               accepted == /\ ListingOf(last'.conv).user = last'.user
                           /\ hid # Null
                           /\ handshakes[hid].status = "active"
           IN  IF accepted
               THEN /\ handshakes'[hid].status = "in_progress"
                    /\ \A h \in HandshakeIds \ {hid} : handshakes'[h] = handshakes[h]
               ELSE /\ handshakes' = handshakes
                    /\ last'.result = "none"
      ]_vars

\* The save of handshake h that the step performs, with its new status
SaveStep(h, new_status) ==
    /\ last'.op = "save"
    /\ last'.hid = h
    /\ last'.new_status = new_status
    /\ last'.old_status = handshakes[h].status

\* C6: saving status completed from active or in_progress, with
\* honey_amount = n > 0 reserved on the spender, takes n from the spender's
\* total_honey and provisioned_honey and adds n to the earner's total_honey;
\* the spender is user2 (earner user1) for an Offer-derived handshake and
\* user1 (earner user2) for a Need-derived one.
C6_CompleteTransfers ==
    [][ \A h \in HandshakeIds :
           LET row == handshakes[h]
               n == row.honey_amount
               spender == IF row.offer_interest # Null THEN row.user2 ELSE row.user1
               earner == IF row.offer_interest # Null THEN row.user1 ELSE row.user2
           IN  (/\ SaveStep(h, "completed")
                /\ row.status \in NonTerminal
                /\ n > 0
                /\ spender \in DOMAIN balances
                /\ balances[spender].provisioned_honey >= n)
               => /\ balances'[spender] =
                        Balance(balances[spender].total_honey - n,
                                balances[spender].provisioned_honey - n)
                  /\ balances'[earner].total_honey =
                        (IF earner \in DOMAIN balances
                         THEN balances[earner].total_honey ELSE 0) + n
                  /\ earner \in DOMAIN balances
                        => balances'[earner].provisioned_honey
                              = balances[earner].provisioned_honey
                  /\ \A u \in DOMAIN balances \ {spender, earner} :
                        balances'[u] = balances[u]
      ]_vars

\* A Need-derived handshake with honey was just completed and its honey moved
\* from user1 (the need's creator) to user2.
C6_Witness ==
    /\ last.op = "save"
    /\ last.new_status = "completed"
    /\ last.old_status \in NonTerminal
    /\ last.changed
    /\ LET row == handshakes[last.hid]
       IN  /\ row.need_interest # Null
           /\ row.honey_amount > 0
           /\ row.status = "completed"
           /\ balances[row.user2].total_honey = 3 + row.honey_amount
           /\ balances[row.user1].total_honey = 3 - row.honey_amount

\* C7: saving status cancelled from active or in_progress, with
\* honey_amount = n reserved on the spender, takes n from the spender's
\* provisioned_honey and leaves the spender's total_honey and every other
\* balance (the earner's included) unchanged.
C7_CancelReleases ==
    [][ \A h \in HandshakeIds :
           LET row == handshakes[h]
               n == row.honey_amount
               spender == IF row.offer_interest # Null THEN row.user2 ELSE row.user1
           IN  (/\ SaveStep(h, "cancelled")
                /\ row.status \in NonTerminal
                /\ spender \in DOMAIN balances
                /\ balances[spender].provisioned_honey >= n)
               => /\ balances'[spender] =
                        Balance(balances[spender].total_honey,
                                balances[spender].provisioned_honey - n)
                  /\ \A u \in DOMAIN balances \ {spender} : balances'[u] = balances[u]
                  /\ DOMAIN balances' = DOMAIN balances
      ]_vars

\* A handshake with honey was just cancelled and the release put its
\* spender back at the starting balance {3, 0}.
C7_Witness ==
    /\ last.op = "save"
    /\ last.new_status = "cancelled"
    /\ last.old_status \in NonTerminal
    /\ last.changed
    /\ LET row == handshakes[last.hid]
       IN  /\ row.honey_amount > 0
           /\ row.status = "cancelled"
           /\ balances[get_spender(row)] = StartingBalance

\* C8: a save changes balances only when it moves a handshake from active or
\* in_progress into completed or cancelled; a save of a handshake that is
\* already completed or cancelled changes no balance, whatever status it sets.
C8_EffectsOnlyFromNonTerminal ==
    [][ \A h \in HandshakeIds, st \in Statuses :
           (SaveStep(h, st) /\ balances' # balances)
           => (handshakes[h].status \in NonTerminal /\ st \in Terminal)
      ]_vars

\* C9: a save with status completed that directly follows a save with status
\* completed of the same handshake changes no balance.
C9_CompleteTwice ==
    [][ \A h \in HandshakeIds :
           (/\ SaveStep(h, "completed")
            /\ last.op = "save"
            /\ last.hid = h
            /\ last.new_status = "completed")
           => balances' = balances
      ]_vars

\* The second of two consecutive completions has run on a handshake whose
\* spender still holds enough reserved honey for another finalize.
C9_Witness ==
    /\ last.op = "save"
    /\ last.new_status = "completed"
    /\ last.repeat
    /\ ~last.changed
    /\ LET row == handshakes[last.hid]
       IN  /\ row.honey_amount > 0
           /\ balances[get_spender(row)].provisioned_honey >= row.honey_amount

\* C10: of two concurrent complete / cancel saves of one non-terminal
\* handshake, at most one applies its ledger effect (finalize or release).
C10_AtMostOneEffect ==
    \A p, q \in Savers :
        (p # q /\ savers[p].hid = savers[q].hid
         /\ savers[p].old_status \in NonTerminal
         /\ savers[q].old_status \in NonTerminal)
        => ~(savers[p].applied /\ savers[q].applied)

\* The spender and the listing's hours of the handshake a start on conv by
\* user is about
StartSpender(user, conv) ==
    IF conv.type = "offer" THEN user ELSE ListingOf(conv).user

StartHours(conv) == parse_duration_to_hours(ListingOf(conv).duration)

\* C11: of two concurrent handshake creations drawing on one spender whose
\* usable honey covers only one of the two amounts, at most one succeeds, and
\* every balance keeps provisioned_honey <= total_honey.
C11_ConcurrentStarts ==
    /\ \A p, q \in Starters :
          (/\ p # q
           /\ starters[p].result = "created"
           /\ starters[q].result = "created"
           /\ StartSpender(starters[p].user, starters[p].conv)
                 = StartSpender(starters[q].user, starters[q].conv))
          => StartHours(starters[p].conv) + StartHours(starters[q].conv)
                <= usable_honey(StartingBalance)
    /\ \A u \in DOMAIN balances :
          balances[u].provisioned_honey <= balances[u].total_honey

\* C12: provision(b, n) with n > usable_honey fails and leaves total_honey
\* and provisioned_honey unchanged; with n <= usable_honey it adds n to
\* provisioned_honey and leaves total_honey unchanged.
C12_ProvisionContract ==
    [][ last'.op = "provision"
        => LET u == last'.user
               n == last'.amount
               b == balances[u]
           IN  IF n > b.total_honey - b.provisioned_honey
               THEN ~last'.ok /\ balances'[u] = b
               ELSE /\ last'.ok
                    /\ balances'[u] = Balance(b.total_honey, b.provisioned_honey + n)
      ]_vars

\* A provision was refused for an amount the total would cover but the
\* usable part, reduced by an earlier reservation, does not.
C12_Witness ==
    /\ last.op = "provision"
    /\ ~last.ok
    /\ balances[last.user] = last.before
    /\ last.before.provisioned_honey > 0
    /\ last.amount <= last.before.total_honey
    /\ last.amount > usable_honey(last.before)

\* C13: a successful provision(b, n) followed immediately by
\* release_provision(b, n) succeeds and gives back the balance as it was
\* before the provision: provisioned_honey restored, total_honey unchanged.
C13_ProvisionReleaseRoundTrip ==
    [][ (/\ last.op = "provision"
         /\ last.ok
         /\ last'.op = "release_provision"
         /\ last'.user = last.user
         /\ last'.amount = last.amount)
        => /\ last'.ok
           /\ balances'[last.user].provisioned_honey = last.before.provisioned_honey
           /\ balances'[last.user].total_honey = last.before.total_honey
      ]_vars

\* A positive amount was reserved on top of an earlier reservation and then
\* released again at once.
C13_Witness ==
    /\ last.op = "release_provision"
    /\ last.undo
    /\ last.ok
    /\ last.amount > 0
    /\ balances[last.user].provisioned_honey > 0

\* C14: release_provision(b, n) fails and leaves b unchanged when
\* n > provisioned_honey; otherwise it subtracts n from provisioned_honey and
\* leaves total_honey unchanged.
C14_ReleaseContract ==
    [][ last'.op = "release_provision"
        => LET u == last'.user
               n == last'.amount
               b == balances[u]
           IN  IF n > b.provisioned_honey
               THEN ~last'.ok /\ balances'[u] = b
               ELSE /\ last'.ok
                    /\ balances'[u] = Balance(b.total_honey, b.provisioned_honey - n)
      ]_vars

\* A release was refused for more than the (non-zero) reserved amount.
C14_Witness ==
    /\ last.op = "release_provision"
    /\ ~last.ok
    /\ last.before.provisioned_honey > 0
    /\ last.amount > last.before.provisioned_honey
    /\ balances[last.user] = last.before

\* C15: finalize_transaction(b, n) fails and leaves b unchanged when
\* n > provisioned_honey; otherwise it subtracts n from total_honey and from
\* provisioned_honey, so usable_honey is the same before and after.
C15_FinalizeContract ==
    [][ last'.op = "finalize_transaction"
        => LET u == last'.user
               n == last'.amount
               b == balances[u]
           IN  IF n > b.provisioned_honey
               THEN ~last'.ok /\ balances'[u] = b
               ELSE /\ last'.ok
                    /\ balances'[u] = Balance(b.total_honey - n, b.provisioned_honey - n)
                    /\ balances'[u].total_honey - balances'[u].provisioned_honey
                          = b.total_honey - b.provisioned_honey
      ]_vars

\* A positive reserved amount was finalized and part of the reservation
\* remains.
C15_Witness ==
    /\ last.op = "finalize_transaction"
    /\ last.ok
    /\ last.amount > 0
    /\ balances[last.user].provisioned_honey > 0
    /\ balances[last.user].total_honey = last.before.total_honey - last.amount

\* C16: when the finalize or release of a save to completed / cancelled is
\* rejected because the spender's provisioned_honey is smaller than
\* honey_amount, the save raises no error and the stored status still becomes
\* completed / cancelled.
C16_LedgerFailureDoesNotBlock ==
    [][ \A h \in HandshakeIds, st \in Terminal :
           LET row == handshakes[h]
               spender == IF row.offer_interest # Null THEN row.user2 ELSE row.user1
           IN  (/\ SaveStep(h, st)
                /\ row.status # st
                /\ row.honey_amount > 0
                /\ spender \in DOMAIN balances
                /\ balances[spender].provisioned_honey < row.honey_amount)
               => /\ last'.ok
                  /\ handshakes'[h].status = st
      ]_vars

\* A handshake with honey was just cancelled although its release was
\* rejected: the spender holds less reserved honey than honey_amount.
C16_Witness ==
    /\ last.op = "save"
    /\ last.new_status = "cancelled"
    /\ last.old_status \in NonTerminal
    /\ last.ledger_error
    /\ last.ok
    /\ LET row == handshakes[last.hid]
       IN  /\ row.status = "cancelled"
           /\ row.honey_amount > 0
           /\ balances[get_spender(row)].provisioned_honey < row.honey_amount

\* C17: at most one handshake references a given interest, and a
\* handshake_start by a user whose interest already has a handshake adds no
\* row, changes no handshake, and reports that handshake with its status as
\* already existing.
C17_OneHandshakePerInterest ==
    [][ /\ \A h1, h2 \in 1..Len(handshakes') :
              (\/ (/\ handshakes'[h1].offer_interest # Null
                   /\ handshakes'[h1].offer_interest = handshakes'[h2].offer_interest)
               \/ (/\ handshakes'[h1].need_interest # Null
                   /\ handshakes'[h1].need_interest = handshakes'[h2].need_interest))
              => h1 = h2
        /\ (last'.op = "handshake_start" /\ HasListing(last'.conv))
           => LET i == InterestOf(last'.conv, last'.user)
                  existing == {h \in HandshakeIds :
                                  \/ handshakes[h].offer_interest = i
                                  \/ handshakes[h].need_interest = i}
              IN  (i # Null /\ existing # {})
                  => /\ handshakes' = handshakes
                     /\ last'.result = "exists"
                     /\ last'.hid \in existing
                     /\ last'.broadcast
      ]_vars

\* A handshake_start arrived for an interest whose handshake had already
\* been approved: it was answered with the existing handshake, still
\* in_progress, and no second row.
C17_Witness ==
    /\ last.op = "handshake_start"
    /\ last.result = "exists"
    /\ Len(handshakes) = 1
    /\ handshakes[last.hid].status = "in_progress"

\* C18: every stored handshake has exactly one of offer_interest and
\* need_interest set; a create with neither or with both is rejected and
\* stores nothing.
C18_ExactlyOneInterest ==
    [][ /\ \A h \in 1..Len(handshakes') :
              (handshakes'[h].offer_interest = Null) # (handshakes'[h].need_interest = Null)
        /\ (/\ last'.op = "create"
            /\ (last'.offer_interest = Null) = (last'.need_interest = Null))
           => /\ ~last'.ok
              /\ handshakes' = handshakes
      ]_vars

\* A create naming both an offer interest and a need interest, neither of
\* which has a handshake, was rejected.
C18_Witness ==
    /\ last.op = "create"
    /\ ~last.ok
    /\ last.offer_interest # Null
    /\ last.need_interest # Null
    /\ handshakes = << >>

\* C19: a handshake_start sent by the listing's creator creates no
\* handshake, changes no handshake and no balance, and broadcasts nothing.
C19_CreatorCannotStart ==
    [][ (/\ last'.op = "handshake_start"
         /\ HasListing(last'.conv)
         /\ ListingOf(last'.conv).user = last'.user)
        => /\ handshakes' = handshakes
           /\ balances' = balances
           /\ last'.result = "none"
           /\ ~last'.broadcast
      ]_vars

\* The creator sent handshake_start on a listing where another user holds
\* an interest that has no handshake yet, and none was created.
C19_Witness ==
    /\ last.op = "handshake_start"
    /\ HasListing(last.conv)
    /\ ListingOf(last.conv).user = last.user
    /\ FirstOtherInterest(last.conv, last.user) # Null
    /\ handshakes = << >>

\* The interests of `user` on the listing of `conv`, in the given table
SamePair(table, conv, user) ==
    {i \in 1..Len(table) : /\ table[i].type = conv.type
                           /\ table[i].listing = conv.id
                           /\ table[i].user = user}

\* C20: at most one interest exists per (listing, user); a non-creator who
\* opens or messages a conversation gets the pair's existing interest, or a
\* new one with status pending when there was none; and a direct insert for
\* a pair that has an interest is rejected.
C20_InterestUniquePerPair ==
    [][ /\ \A i, j \in 1..Len(interests') :
              (/\ interests'[i].type = interests'[j].type
               /\ interests'[i].listing = interests'[j].listing
               /\ interests'[i].user = interests'[j].user)
              => i = j
        /\ (/\ \/ (last'.op = "open" /\ last'.result = "ok")
               \/ (last'.op = "message" /\ last'.result = "saved")
            /\ ListingOf(last'.conv).user # last'.user)
           => LET existing == SamePair(interests, last'.conv, last'.user)
                  used == IF last'.op = "open" THEN last'.interest
                          ELSE messages'[last'.mid].interest
              IN  IF existing # {}
                  THEN interests' = interests /\ used \in existing
                  ELSE /\ interests' = Append(interests,
                                           [type |-> last'.conv.type,
                                            listing |-> last'.conv.id,
                                            user |-> last'.user,
                                            status |-> "pending"])
                       /\ used = Len(interests')
        /\ (last'.op = "insert" /\ SamePair(interests, last'.conv, last'.user) # {})
           => ~last'.ok /\ interests' = interests
      ]_vars

\* A non-creator opened a conversation again and got the interest they
\* already had, while another user holds an interest on the same listing.
C20_Witness ==
    /\ last.op = "open"
    /\ last.result = "ok"
    /\ ~last.created
    /\ ListingOf(last.conv).user # last.user
    /\ interests[last.interest].user = last.user
    /\ Len(interests) = 2
    /\ interests[1].listing = interests[2].listing
    /\ interests[1].type = interests[2].type

\* The conversation id names an existing offer or need
NamesListing(conv) ==
    \E l \in Listings : l.type = conv.type /\ l.id = conv.id

\* C21: a connection is in the group chat_<conversation id>, and accepted,
\* only after its token resolved to a user, then a conversation id was
\* present, then the id named an existing offer or need (whoever the user
\* is); a connection failing one of the three is closed with 4001, 4000 or
\* 4003 respectively and never enters the group.
C21_ConnectOrder ==
    [][ \A c \in ConnIds :
           LET old == conns[c]
               new == conns'[c]
           IN  /\ (new.in_group /\ ~old.in_group)
                  => /\ old.passed = << "token", "id", "listing" >>
                     /\ new.token_user \in Users
                     /\ new.user = new.token_user
                     /\ new.conv # NoConv
                     /\ NamesListing(new.conv)
                     /\ ~old.accepted
               /\ (new.accepted /\ ~old.accepted) => old.in_group
               /\ (new.state = "closed" /\ old.state # "closed" /\ ~old.accepted)
                  => /\ ~old.in_group /\ ~new.in_group
                     /\ new.code = IF new.token_user = NoUser THEN 4001
                                   ELSE IF new.conv = NoConv THEN 4000
                                   ELSE 4003
                     /\ new.code = 4003 => ~NamesListing(new.conv)
               /\ (old.code # 0) => (new = old /\ ~old.in_group)
      ]_vars

\* carol, who is neither the creator of offer 1 nor interested in it, is in
\* its group and accepted, while another connection was turned away with
\* 4003.
C21_Witness ==
    \E c, d \in ConnIds :
        /\ conns[c].user = "carol"
        /\ conns[c].conv = [type |-> "offer", id |-> 1]
        /\ conns[c].in_group
        /\ conns[c].accepted
        /\ conns[d].code = 4003
        /\ conns[d].token_user \in Users

\* The ids of the message events a connection received, in order
DeliveredIds(c) ==
    LET RECURSIVE Ids(_)
        Ids(q) == IF q = << >> THEN << >>
                  ELSE IF Head(q).type = "message"
                       THEN << Head(q).mid >> \o Ids(Tail(q))
                       ELSE Ids(Tail(q))
    IN  Ids(conns[c].inbox)

\* C22: every joined connection receives the messages of its conversation
\* in the order in which they were persisted (ascending message id), also
\* when two connections send concurrently, and every message event refers
\* to a Message persisted before the broadcast.
C22_DeliveryInPersistedOrder ==
    \A c \in ConnIds :
        LET ids == DeliveredIds(c)
        IN  /\ \A i \in 1..Len(ids) : ids[i] \in 1..Len(messages)
            /\ \A i, j \in 1..Len(ids) : i < j => ids[i] < ids[j]

\* There is an interest row of user on the listing of conv
HasInterestRow(conv, user) ==
    \E i \in DOMAIN interests :
        /\ interests[i].type = conv.type
        /\ interests[i].listing = conv.id
        /\ interests[i].user = user

\* C23: a chat message with content from a non-creator who has no Interest
\* on the listing inserts the Interest (listing, sender) with status pending
\* and persists the Message on that Interest with sender = the non-creator,
\* recipient = the listing's creator and is_read = false.
C23_LazyInterest ==
    [][ \A u \in Users, conv \in ConvIds :
           ( /\ last'.op = "message"
             /\ last'.user = u
             /\ last'.conv = conv
             /\ last'.result # "error"
             /\ ListingOf(conv).user # u
             /\ ~HasInterestRow(conv, u) )
           => /\ interests' = Append(interests,
                                  [type |-> conv.type, listing |-> conv.id,
                                   user |-> u, status |-> "pending"])
              /\ messages' = Append(messages,
                                 [interest |-> Len(interests) + 1, sender |-> u,
                                  recipient |-> ListingOf(conv).user,
                                  content |-> "hi", is_read |-> FALSE])
      ]_vars

\* carol's first message on bob's need 1 created her pending interest and
\* was stored on it, unread, addressed to bob.
C23_Witness ==
    /\ last.op = "message"
    /\ last.user = "carol"
    /\ last.conv = [type |-> "need", id |-> 1]
    /\ last.result = "saved"
    /\ interests = << [type |-> "need", listing |-> 1, user |-> "carol",
                       status |-> "pending"] >>
    /\ messages = << [interest |-> 1, sender |-> "carol", recipient |-> "bob",
                      content |-> "hi", is_read |-> FALSE] >>

\* C24: a chat event whose content is empty after trimming persists no
\* Message, creates no Interest, broadcasts nothing, and sends one error
\* event to the originating connection only.
C24_EmptyContent ==
    [][ ( /\ last'.op = "chat"
          /\ last'.event.payload = "object"
          /\ last'.event.type = "message"
          /\ last'.event.content = "  " )
        => /\ messages' = messages
           /\ interests' = interests
           /\ conns'[last'.conn] =
                 [conns[last'.conn] EXCEPT
                     !.inbox = Append(@, ErrorEvent("Content is required"))]
           /\ \A d \in ConnIds \ {last'.conn} : conns'[d] = conns[d]
      ]_vars

\* bob, who has no interest on offer 1 yet, sent blanks: he alone holds an
\* error event, and there is still no interest and no message.
C24_Witness ==
    /\ last.op = "chat"
    /\ last.event.type = "message"
    /\ last.event.content = "  "
    /\ conns[last.conn].user = "bob"
    /\ conns[last.conn].inbox = << ErrorEvent("Content is required") >>
    /\ conns[last.conn].state = "open"
    /\ \A d \in ConnIds \ {last.conn} : conns[d].inbox = << >>
    /\ interests = << >>
    /\ messages = << >>

\* C25: every inbound event with an unrecognized type or a malformed payload
\* produces one error event, sent to the originating connection and to no
\* other, and changes no persisted state.
C25_BadEventAnswered ==
    [][ ( /\ last'.op = "chat"
          /\ \/ last'.event.payload # "object"
             \/ last'.event.type \notin {"message", "handshake_start", "handshake_approve"}
             \/ last'.event.content = "not_a_string" )
        => /\ messages' = messages
           /\ interests' = interests
           /\ handshakes' = handshakes
           /\ balances' = balances
           /\ Len(conns'[last'.conn].inbox) = Len(conns[last'.conn].inbox) + 1
           /\ conns'[last'.conn].inbox[Len(conns'[last'.conn].inbox)].type = "error"
           /\ \A d \in ConnIds \ {last'.conn} : conns'[d] = conns[d]
      ]_vars

\* There is an interest row on the listing of conv held by someone else
OtherInterestRow(conv, user) ==
    \E i \in DOMAIN interests :
        /\ interests[i].type = conv.type
        /\ interests[i].listing = conv.id
        /\ interests[i].user # user

OtherParty(ints, i, u, conv) ==
    IF ListingOf(conv).user = u THEN ints[i].user ELSE ListingOf(conv).user

\* C27: fetching a conversation's messages marks as read exactly the unread
\* messages of the resolved Interest whose recipient is the caller and whose
\* sender is the other party, leaves every other message and every content
\* as it was, and afterwards the caller's unread count for that conversation
\* (in the caller's summary list) is 0.
C27_MarkReadExactly ==
    [][ \A u \in Users, conv \in ConvIds :
           ( /\ last'.op = "open"
             /\ last'.user = u
             /\ last'.conv = conv
             /\ last'.result = "ok" )
           => LET i == last'.interest
                  other == OtherParty(interests', i, u, conv)
                  list == SortDescending(Dedup(Candidates(interests', messages', u)))
              IN  /\ DOMAIN messages' = DOMAIN messages
                  /\ \A m \in DOMAIN messages :
                        messages'[m] =
                           IF /\ messages[m].interest = i
                              /\ messages[m].recipient = u
                              /\ messages[m].sender = other
                              /\ ~messages[m].is_read
                           THEN [messages[m] EXCEPT !.is_read = TRUE]
                           ELSE messages[m]
                  /\ \A k \in DOMAIN list :
                        list[k].id = conv => list[k].unreadCount = 0
      ]_vars

MessagesKept ==
    /\ Len(messages') >= Len(messages)
    /\ \A m \in DOMAIN messages :
          \/ messages'[m] = messages[m]
          \/ /\ ~messages[m].is_read
             /\ messages'[m] = [messages[m] EXCEPT !.is_read = TRUE]

\* C28 as stated: no operation deletes or edits a Message once created, and
\* is_read only ever changes from false to true.
C28_MessagesImmutable == [][MessagesKept]_vars

\* C28 amended: no REST endpoint and no socket event deletes or edits a
\* Message, and they change is_read only from false to true; staff can edit
\* and delete messages in the admin site.
C28_ApiKeepsMessages ==
    [][last'.op \notin {"admin_change", "admin_delete"} => MessagesKept]_vars

\* alice opened her offer's conversation again after bob's message had been
\* read: the message is there and still read.
C28_Witness ==
    /\ last.op = "open"
    /\ last.user = "alice"
    /\ last.result = "ok"
    /\ ~last.created
    /\ messages = << [interest |-> 1, sender |-> "bob", recipient |-> "alice",
                      content |-> "hi", is_read |-> TRUE] >>

\* C30: every HoneyBalance that comes into existence, on any path, starts
\* as {total_honey: 3, provisioned_honey: 0}.
C30_BalancesStartAtThree ==
    [][ \A u \in (DOMAIN balances') \ (DOMAIN balances) :
           balances'[u] = StartingBalance ]_vars

\* C31: a handshake's honey_amount is fixed when the handshake is created:
\* approve, complete, cancel and every other status save leave the row in
\* place with the honey_amount it had.
C31_HoneyAmountFixed ==
    [][ \A h \in DOMAIN handshakes :
           /\ h \in DOMAIN handshakes'
           /\ handshakes'[h].honey_amount = handshakes[h].honey_amount ]_vars

\* a handshake created with 2 hours was completed, the ledger moved, and the
\* row still says 2.
C31_Witness ==
    /\ last.op = "save"
    /\ last.ok
    /\ last.old_status = "in_progress"
    /\ last.new_status = "completed"
    /\ last.changed
    /\ handshakes[last.hid].status = "completed"
    /\ handshakes[last.hid].honey_amount = 2

\* x hours, given as num/den, rounded to whole hours with halves going up
RoundHalfUp(num, den) == (2 * num + den) \div (2 * den)

\* C32: a duration string is parsed to whole hours with halves rounded up
\* ("1.5 Hours" gives 2, "30 Minutes" gives 1, k + 0.5 hours gives k + 1),
\* and a string with no numeric token gives 0.
C32_HalvesRoundUp ==
    last.op = "parse"
    => last.hours = IF last.input.unit \in {"empty", "nonum"} THEN 0
                    ELSE IF last.input.unit = "minute"
                         THEN RoundHalfUp(last.input.tenths, 600)
                         ELSE RoundHalfUp(last.input.tenths, 10)

\* C33: saving a listing whose expires_at is in the past moves an Offer with
\* status active to expired and a Need with status open to closed; a listing
\* in any other status, or without expires_at, or not yet expired, is
\* written with the status it was saved with.
C33_LazyExpiry ==
    [][ \A conv \in ListingConvs :
           (last'.op = "listing_save" /\ last'.conv = conv)
           => LET self == last'.self
                  past == self.expires_at # Null /\ self.expires_at < now
                  live == IF conv.type = "offer" THEN "active" ELSE "open"
                  over == IF conv.type = "offer" THEN "expired" ELSE "closed"
              IN  /\ listings'[conv].status =
                        IF past /\ self.status = live THEN over ELSE self.status
                  /\ listings'[conv].expires_at = self.expires_at
                  /\ listings'[conv].title = listings[conv].title
                  /\ \A other \in ListingConvs \ {conv} : listings'[other] = listings[other]
      ]_vars

\* alice's offer was saved as active at time 2 with an expiry date of 1 and
\* is now expired, while bob's need, which expires at 2, is still open.
C33_Witness ==
    /\ last.op = "listing_save"
    /\ last.conv = [type |-> "offer", id |-> 1]
    /\ last.self.status = "active"
    /\ last.self.expires_at = 1
    /\ now = 2
    /\ listings[[type |-> "offer", id |-> 1]].status = "expired"
    /\ listings[[type |-> "need", id |-> 1]].status = "open"
    /\ listings[[type |-> "need", id |-> 1]].expires_at = 2

\* C34: a PUT/PATCH on an offer or need without a valid token or session is
\* answered 401, one by an authenticated user who is not the listing's owner
\* is answered 403, and in both cases the listing is left unchanged.
C34_OnlyOwnerUpdates ==
    [][ last'.op = "update"
        => /\ last'.user = NoUser
              => (last'.code = 401 /\ listings' = listings)
           /\ ( /\ last'.user # NoUser
                /\ \E l \in Listings : /\ l.type = last'.conv.type
                                       /\ l.id = last'.conv.id
                                       /\ l.user # last'.user )
              => (last'.code = 403 /\ listings' = listings)
      ]_vars

\* bob asked to retitle alice's offer, was answered 403, and the offer
\* keeps the title alice gave it.
C34_Witness ==
    /\ last.op = "update"
    /\ last.user = "bob"
    /\ last.conv = [type |-> "offer", id |-> 1]
    /\ last.title = "new title"
    /\ last.code = 403
    /\ listings[[type |-> "offer", id |-> 1]].title = "old title"

\* The honey in circulation: total_honey summed over the balances that exist
RECURSIVE SumTotalHoney(_, _)
SumTotalHoney(bals, users) ==
    IF users = {} THEN 0
    ELSE LET u == CHOOSE x \in users : TRUE
         IN  bals[u].total_honey + SumTotalHoney(bals, users \ {u})

TotalHoney(bals) == SumTotalHoney(bals, DOMAIN bals)

\* C35: a save of a handshake, whatever status it moves to, leaves the sum
\* of total_honey over the existing balances as it was (a balance the save
\* creates starts at 0): completion moves honey_amount from the spender to
\* the earner or moves nothing, cancellation touches no total.
C35_HoneyConserved ==
    [][ last'.op = "save" => TotalHoney(balances') = TotalHoney(balances) ]_vars

\* A completion has moved one honey from bob to alice: 3 + 3 before, 2 + 4
\* after.
C35_Witness ==
    /\ last.op = "save"
    /\ last.old_status \in {"active", "in_progress"}
    /\ last.new_status = "completed"
    /\ last.changed
    /\ "alice" \in DOMAIN balances
    /\ balances["bob"].total_honey = 2
    /\ balances["alice"].total_honey = 4

\* honey_amount summed over the handshakes in status active or in_progress
\* whose spender is user
LiveAmount(user) ==
    LET upto[n \in 0..Len(handshakes)] ==
            IF n = 0 THEN 0
            ELSE upto[n - 1]
                 + IF /\ handshakes[n].status \in {"active", "in_progress"}
                      /\ get_spender(handshakes[n]) = user
                   THEN handshakes[n].honey_amount ELSE 0
    IN  upto[Len(handshakes)]

C39_StartNeedsInterest ==
    [][ last'.op = "handshake_start"
        => /\ ( /\ \E l \in Listings : /\ l.type = last'.conv.type
                                       /\ l.id = last'.conv.id
                                       /\ l.user # last'.user
                /\ ~\E i \in DOMAIN interests :
                       /\ interests[i].type = last'.conv.type
                       /\ interests[i].listing = last'.conv.id
                       /\ interests[i].user = last'.user )
              => /\ interests' = interests
                 /\ handshakes' = handshakes
                 /\ balances' = balances
                 /\ ~last'.broadcast
           /\ \A h \in DOMAIN handshakes' \ DOMAIN handshakes :
                 \E i \in DOMAIN interests :
                    /\ i \in {handshakes'[h].offer_interest, handshakes'[h].need_interest}
                    /\ interests[i].user = last'.user
      ]_vars

\* bob holds the only interest on alice's offer; carol, who holds none, sent
\* handshake_start there and nothing was created or broadcast.
C39_Witness ==
    /\ last.op = "handshake_start"
    /\ last.user = "carol"
    /\ last.conv = [type |-> "offer", id |-> 1]
    /\ last.result = "none"
    /\ ~last.broadcast
    /\ Len(interests) = 1
    /\ interests[1].user = "bob"
    /\ handshakes = << >>

\* C38: a message the creator of a listing sends is stored on the earliest
\* interest row that another user holds on that listing, however many users
\* have engaged since.
C38_CreatorTalksToEarliest ==
    [][ ( /\ last'.op = "message"
          /\ last'.result = "saved"
          /\ \E l \in Listings : /\ l.type = last'.conv.type
                                 /\ l.id = last'.conv.id
                                 /\ l.user = last'.user )
        => \A j \in DOMAIN interests :
              ( /\ interests[j].type = last'.conv.type
                /\ interests[j].listing = last'.conv.id
                /\ interests[j].user # last'.user )
              => messages'[last'.mid].interest <= j
      ]_vars

\* C37: a message event reaches only sockets of the message's sender and of
\* its recipient.
C37_OnlySenderAndRecipient ==
    \A c \in ConnIds :
       \A k \in DOMAIN conns[c].inbox :
          conns[c].inbox[k].type = "message"
          => conns[c].user \in { messages[conns[c].inbox[k].mid].sender,
                                 messages[conns[c].inbox[k].mid].recipient }

====
